---- MODULE Spec2Model ----
(***************************************************************************)
(* Infix to postfix conversion (shunting yard) of teleprint-me/shunting-yard *)
(* as a state machine: main() runs tokenizer, shunt_is_valid_infix,         *)
(* shunt_yard and shunt_is_valid_postfix on one expression text; a second   *)
(* caller builds the infix list itself with token_create* and               *)
(* token_list_push and then runs the same calls.                            *)
(*                                                                         *)
(* A text is a sequence of one-character strings.  A Token is a record with *)
(* the fields of struct Token; a TokenList is a record with the slots below *)
(* count (tokens), the capacity, and mem, the state of its allocation.      *)
(* Indices named i, index are 0-based as in the C code; tokens[k + 1] is    *)
(* list->tokens[k].                                                         *)
(***************************************************************************)
EXTENDS Integers, Sequences, FiniteSets, TLC

VARIABLES
    text,       \* main: the expression handed to tokenizer
    pos,        \* tokenizer: characters of text already consumed
    infix,      \* the TokenList tokenizer builds and shunt_yard reads
    infix_ret,  \* what tokenizer returned to main: "pending", "list" or "NULL"
    i,          \* shunt_yard: loop index into infix
    postfix,    \* shunt_yard: the output queue
    operators,  \* shunt_yard: the operator stack
    ret,        \* what shunt_yard returned: "pending", "postfix" or "NULL"
    valid_in,   \* result of shunt_is_valid_infix: "pending", "true", "false"
    valid_post, \* result of shunt_is_valid_postfix: "pending", "true", "false"
    pc,         \* position of the control flow
    stack,      \* list API: the TokenList a caller works on
    slots,      \* list API: the address of the Token each slot of stack points to
    heap,       \* list API: for every address, "live" (allocated) or "free"
    hand,       \* list API: the Token pointer the caller holds, and who owns it
    last,       \* list API: the call the caller made last, with its argument
    run,        \* list API: tokens pushed and not yet popped, and the list below them
    fault,      \* list API: "none", or the memory error that has happened
    oom,        \* the allocation that has failed, and the tokens it left unreleased
    calls       \* two shunt_yard calls at once: for each its infix list and its locals

\* the variables of main and shunt_yard
main_vars == <<text, pos, infix, infix_ret, i, postfix, operators, ret, valid_in, valid_post, pc,
               oom, calls>>

\* the variables of the caller of the token and list API
api_vars == <<stack, slots, heap, hand, last, run, fault>>

vars == <<text, pos, infix, infix_ret, i, postfix, operators, ret, valid_in, valid_post, pc,
          stack, slots, heap, hand, last, run, fault, oom, calls>>

-----------------------------------------------------------------------------
(* Bounds of the model *)

\* longest text over Alphabet that is enumerated exhaustively
MaxLen == 4

\* longest chain of unary signs put before a literal
MaxChain == 3

\* most tokens a caller pushes onto an infix list it builds itself
MaxTokens == 3

\* most tokens on the list of the caller that exercises the list API
MaxCount == 3

-----------------------------------------------------------------------------
(* Enumerations of include/lexer/token.h as used by token.c and parser.c *)

TOKEN_PRECEDENT_ERROR == 0 - 1
TOKEN_PRECEDENT_NONE == 0
TOKEN_PRECEDENT_ADDITIVE == 1
TOKEN_PRECEDENT_MULTIPLICATIVE == 2
\* The header that declares TOKEN_PRECEDENT_UNARY is not among the sources;
\* the specification places the Unary rank strictly above Multiplicative.
TOKEN_PRECEDENT_UNARY == 3

LiteralTypes == {"TOKEN_TYPE_INTEGER", "TOKEN_TYPE_FLOAT"}
OperatorTypes == {"TOKEN_TYPE_PLUS", "TOKEN_TYPE_MINUS", "TOKEN_TYPE_STAR",
                  "TOKEN_TYPE_SLASH", "TOKEN_TYPE_MOD"}
GroupTypes == {"TOKEN_TYPE_LEFT_PAREN", "TOKEN_TYPE_RIGHT_PAREN"}

\* A null Token pointer.
NULL_TOKEN ==
    [lexeme |-> <<>>, size |-> 0, type |-> "NULL", kind |-> "NULL",
     role |-> "NULL", association |-> "NULL", precedence |-> TOKEN_PRECEDENT_ERROR]

IsNull(token) == token.type = "NULL"

-----------------------------------------------------------------------------
(* ASCII character classification *)

DigitChars == {"0", "1", "2", "3", "4", "5", "6", "7", "8", "9"}
OpChars == {"+", "-", "*", "/", "%"}
GroupChars == {"(", ")"}
SpaceChars == {" "}

isdigit(s) == s \in DigitChars

isop(s) == s \in OpChars

isgroup(s) == s \in GroupChars

isspace(s) == s \in SpaceChars

\* *expression for a text whose first pos characters are consumed; "NUL" at the end
CharAt(t, p) == IF p < Len(t) THEN t[p + 1] ELSE "NUL"

\* the rest of the text from position p on
Rest(t, p) == SubSeq(t, p + 1, Len(t))

Min(a, b) == IF a < b THEN a ELSE b

-----------------------------------------------------------------------------
(* token.c *)

token_precedence(token) ==
    IF IsNull(token) THEN TOKEN_PRECEDENT_ERROR
    ELSE IF token.type \in {"TOKEN_TYPE_PLUS", "TOKEN_TYPE_MINUS"}
        THEN TOKEN_PRECEDENT_ADDITIVE
    ELSE IF token.type \in {"TOKEN_TYPE_STAR", "TOKEN_TYPE_SLASH", "TOKEN_TYPE_MOD"}
        THEN TOKEN_PRECEDENT_MULTIPLICATIVE
    ELSE TOKEN_PRECEDENT_NONE

\* strndup(lexeme, size) and the default fields
token_create(lexeme, size) ==
    LET copy == SubSeq(lexeme, 1, Min(size, Len(lexeme)))
    IN  [lexeme |-> copy, size |-> Len(copy), type |-> "TOKEN_TYPE_NONE",
         kind |-> "TOKEN_KIND_NONE", role |-> "TOKEN_ROLE_NONE",
         association |-> "TOKEN_ASSOCIATE_NONE", precedence |-> TOKEN_PRECEDENT_NONE]

\* variant: every '.' is consumed, seen_dot is not tested
RECURSIVE number_scan_every_dot(_, _, _)
number_scan_every_dot(lexeme, span, seen_dot) ==
    LET c == CharAt(lexeme, span)
    IN  IF isdigit(c) THEN number_scan_every_dot(lexeme, span + 1, seen_dot)
        ELSE IF c = "." THEN number_scan_every_dot(lexeme, span + 1, TRUE)
        ELSE [span |-> span, seen_dot |-> seen_dot]

\* the scan loop of token_create_number: [span, seen_dot] after the loop
RECURSIVE number_scan(_, _, _)
number_scan(lexeme, span, seen_dot) ==
    LET c == CharAt(lexeme, span)
    IN  IF isdigit(c) THEN number_scan(lexeme, span + 1, seen_dot)
        ELSE IF ~seen_dot /\ c = "." THEN number_scan(lexeme, span + 1, TRUE)
        ELSE [span |-> span, seen_dot |-> seen_dot]

token_create_number(lexeme) ==
    LET scan == number_scan(lexeme, 0, FALSE)
    IN  [token_create(lexeme, scan.span) EXCEPT
            !.precedence = TOKEN_PRECEDENT_NONE,
            !.association = "TOKEN_ASSOCIATE_NONE",
            !.role = "TOKEN_ROLE_NONE",
            !.kind = "TOKEN_KIND_LITERAL",
            !.type = IF scan.seen_dot THEN "TOKEN_TYPE_FLOAT" ELSE "TOKEN_TYPE_INTEGER"]

operator_type(c) ==
    IF c = "+" THEN "TOKEN_TYPE_PLUS"
    ELSE IF c = "-" THEN "TOKEN_TYPE_MINUS"
    ELSE IF c = "*" THEN "TOKEN_TYPE_STAR"
    ELSE IF c = "/" THEN "TOKEN_TYPE_SLASH"
    ELSE IF c = "%" THEN "TOKEN_TYPE_MOD"
    ELSE "TOKEN_TYPE_NONE"

token_create_operator(lexeme) ==
    IF ~isop(CharAt(lexeme, 0)) THEN NULL_TOKEN
    ELSE LET typed == [token_create(lexeme, 1) EXCEPT !.type = operator_type(CharAt(lexeme, 0))]
         IN  [typed EXCEPT
                !.precedence = token_precedence(typed),
                !.association = "TOKEN_ASSOCIATE_LEFT",
                !.role = "TOKEN_ROLE_BINARY",
                !.kind = "TOKEN_KIND_OPERATOR"]

token_create_group(lexeme) ==
    IF ~isgroup(CharAt(lexeme, 0)) THEN NULL_TOKEN
    ELSE [token_create(lexeme, 1) EXCEPT
            !.type = IF CharAt(lexeme, 0) = "(" THEN "TOKEN_TYPE_LEFT_PAREN"
                     ELSE IF CharAt(lexeme, 0) = ")" THEN "TOKEN_TYPE_RIGHT_PAREN"
                     ELSE "TOKEN_TYPE_NONE",
            !.precedence = TOKEN_PRECEDENT_NONE,
            !.association = "TOKEN_ASSOCIATE_NONE",
            !.role = "TOKEN_ROLE_NONE",
            !.kind = "TOKEN_KIND_GROUP"]

token_clone(token) ==
    IF IsNull(token) THEN NULL_TOKEN
    ELSE [token_create(token.lexeme, token.size) EXCEPT
            !.precedence = token.precedence,
            !.association = token.association,
            !.role = token.role,
            !.kind = token.kind,
            !.type = token.type]

token_is_number(token) == token.type \in LiteralTypes

token_is_operator(token) == token.type \in OperatorTypes

token_is_group(token) == token.type \in GroupTypes

token_is_role_unary(token) == ~IsNull(token) /\ token.role = "TOKEN_ROLE_UNARY"

token_is_role_binary(token) == ~IsNull(token) /\ token.role = "TOKEN_ROLE_BINARY"

token_is_type_plus(token) == token.type = "TOKEN_TYPE_PLUS"

token_is_type_minus(token) == token.type = "TOKEN_TYPE_MINUS"

token_is_type_left_paren(token) == token.type = "TOKEN_TYPE_LEFT_PAREN"

token_is_type_right_paren(token) == token.type = "TOKEN_TYPE_RIGHT_PAREN"

token_is_associate_left(token) ==
    ~IsNull(token) /\ token.association = "TOKEN_ASSOCIATE_LEFT"

\* no two calls are running
NO_CALLS == <<>>

\* no allocation has failed
NO_OOM == [call |-> "none", leaked |-> <<>>]

-----------------------------------------------------------------------------
(* token_list.c *)

\* a TokenList pointer that was never assigned
NULL_LIST == [tokens |-> <<>>, capacity |-> 0, mem |-> "null"]

token_list_create == [tokens |-> <<>>, capacity |-> 1, mem |-> "live"]

token_list_free(list) ==
    IF list.mem = "null" THEN list
    ELSE [tokens |-> <<>>, capacity |-> 0, mem |-> "freed"]

token_list_count(list) == Len(list.tokens)

token_list_is_empty(list) == token_list_count(list) = 0

token_list_is_full(list) == token_list_count(list) >= list.capacity

\* variant: the copy is stored in front of the tokens the list holds
token_list_push_at_head(list, token) ==
    [list EXCEPT
        !.capacity = IF token_list_is_full(list) THEN list.capacity * 2 ELSE list.capacity,
        !.tokens = <<token_clone(token)>> \o list.tokens]

\* variant: a full list grows by one slot
token_list_push_grow_by_one(list, token) ==
    [list EXCEPT
        !.capacity = IF token_list_is_full(list) THEN list.capacity + 1 ELSE list.capacity,
        !.tokens = Append(list.tokens, token_clone(token))]

\* the list after a push that returns true
token_list_push(list, token) ==
    [list EXCEPT
        !.capacity = IF token_list_is_full(list) THEN list.capacity * 2 ELSE list.capacity,
        !.tokens = Append(list.tokens, token_clone(token))]

\* variant: the element at the head of the array is handed back
token_list_pop_token_head(list) ==
    IF list.mem # "live" \/ token_list_count(list) = 0 THEN NULL_TOKEN
    ELSE token_clone(list.tokens[1])

\* the clone that token_list_pop returns
token_list_pop_token(list) ==
    IF list.mem # "live" \/ token_list_count(list) = 0 THEN NULL_TOKEN
    ELSE token_clone(list.tokens[token_list_count(list)])

\* the list after token_list_pop; an empty tail slot makes it return at once
token_list_pop_list(list) ==
    IF list.mem # "live" \/ token_list_count(list) = 0 THEN list
    ELSE IF IsNull(list.tokens[token_list_count(list)]) THEN list
    ELSE [list EXCEPT !.tokens = SubSeq(list.tokens, 1, token_list_count(list) - 1)]

token_list_peek(list) ==
    IF list.mem # "live" \/ token_list_count(list) = 0 THEN NULL_TOKEN
    ELSE list.tokens[token_list_count(list)]

\* variant: an index past the end is clamped to the last element
token_list_peek_index_clamped(list, index) ==
    IF list.mem # "live" \/ token_list_count(list) = 0 THEN NULL_TOKEN
    ELSE IF index >= token_list_count(list) THEN list.tokens[token_list_count(list)]
    ELSE list.tokens[index + 1]

token_list_peek_index(list, index) ==
    IF list.mem # "live" \/ token_list_count(list) = 0 THEN NULL_TOKEN
    ELSE IF index >= token_list_count(list) THEN NULL_TOKEN
    ELSE list.tokens[index + 1]

-----------------------------------------------------------------------------
(* tokenizer.c: one iteration of the while loop of tokenizer per action *)

\* the token the loop creates at the scan position
tokenizer_token(t, p) ==
    IF isdigit(CharAt(t, p)) THEN token_create_number(Rest(t, p))
    ELSE IF isop(CharAt(t, p)) THEN token_create_operator(Rest(t, p))
    ELSE token_create_group(Rest(t, p))

\* variant: the stream advances by one character whatever the token
tokenizer_advance_one(p, token) == p + 1

\* variant: the stream advances one character too far
tokenizer_advance_extra(p, token) == p + token.size + 1

\* expression += token->size
tokenizer_advance(p, token) == p + token.size

\* a digit, an operator or a parenthesis: create the token, push it, advance
TokenizerToken ==
    /\ pc = "tokenizer"
    /\ \/ isdigit(CharAt(text, pos))
       \/ isop(CharAt(text, pos))
       \/ isgroup(CharAt(text, pos))
    /\ LET token == tokenizer_token(text, pos)
       IN  /\ infix' = token_list_push(infix, token)
           /\ pos' = tokenizer_advance(pos, token)
    /\ UNCHANGED <<text, infix_ret, i, postfix, operators, ret, valid_in, valid_post, pc>>
    /\ UNCHANGED api_vars
    /\ UNCHANGED oom
    /\ UNCHANGED calls

\* whitespace is skipped
TokenizerSpace ==
    /\ pc = "tokenizer"
    /\ isspace(CharAt(text, pos))
    /\ pos' = pos + 1
    /\ UNCHANGED <<text, infix, infix_ret, i, postfix, operators, ret, valid_in, valid_post, pc>>
    /\ UNCHANGED api_vars
    /\ UNCHANGED oom
    /\ UNCHANGED calls

\* variant: the list built so far is returned at the unknown character
TokenizerUnknown_returns_partial ==
    /\ pc = "tokenizer"
    /\ CharAt(text, pos) # "NUL"
    /\ ~isdigit(CharAt(text, pos))
    /\ ~isop(CharAt(text, pos))
    /\ ~isgroup(CharAt(text, pos))
    /\ ~isspace(CharAt(text, pos))
    /\ infix_ret' = "list"
    /\ pc' = "valid_infix"
    /\ UNCHANGED <<text, pos, infix, i, postfix, operators, ret, valid_in, valid_post>>
    /\ UNCHANGED api_vars
    /\ UNCHANGED oom
    /\ UNCHANGED calls

\* unknown character: the list is freed and NULL is returned
TokenizerUnknown ==
    /\ pc = "tokenizer"
    /\ CharAt(text, pos) # "NUL"
    /\ ~isdigit(CharAt(text, pos))
    /\ ~isop(CharAt(text, pos))
    /\ ~isgroup(CharAt(text, pos))
    /\ ~isspace(CharAt(text, pos))
    /\ infix' = token_list_free(infix)
    /\ infix_ret' = "NULL"
    /\ pc' = "valid_infix"
    /\ UNCHANGED <<text, pos, i, postfix, operators, ret, valid_in, valid_post>>
    /\ UNCHANGED api_vars
    /\ UNCHANGED oom
    /\ UNCHANGED calls

\* end of the text: the list is returned
TokenizerReturn ==
    /\ pc = "tokenizer"
    /\ CharAt(text, pos) = "NUL"
    /\ infix_ret' = "list"
    /\ pc' = "valid_infix"
    /\ UNCHANGED <<text, pos, infix, i, postfix, operators, ret, valid_in, valid_post>>
    /\ UNCHANGED api_vars
    /\ UNCHANGED oom
    /\ UNCHANGED calls

\* the whole loop of tokenizer from scan position p with the tokens pushed so
\* far: ok is FALSE when NULL is returned, and list is then the freed list
RECURSIVE tokenizer_run(_, _, _)
tokenizer_run(t, p, list) ==
    IF CharAt(t, p) = "NUL" THEN [ok |-> TRUE, list |-> list]
    ELSE IF isdigit(CharAt(t, p)) \/ isop(CharAt(t, p)) \/ isgroup(CharAt(t, p))
    THEN LET token == tokenizer_token(t, p)
         IN  tokenizer_run(t, tokenizer_advance(p, token), token_list_push(list, token))
    ELSE IF isspace(CharAt(t, p)) THEN tokenizer_run(t, p + 1, list)
    ELSE [ok |-> FALSE, list |-> token_list_free(list)]

\* tokenizer(expression)
tokenizer(t) == tokenizer_run(t, 0, token_list_create)

-----------------------------------------------------------------------------
(* A caller that builds the infix list with the token and list API *)

\* the tokens the caller creates: a literal, operators, parentheses, and a
\* token made with token_create alone, whose kind and type stay NONE
CallerTokens ==
    {token_create_number(<<"1">>),
     token_create_operator(<<"+">>),
     token_create_operator(<<"*">>),
     token_create_group(<<"(">>),
     token_create_group(<<")">>),
     token_create(<<"x">>, 1)}

\* token_list_push(infix, token); token_free(token)
CallerPush ==
    /\ pc = "caller"
    /\ token_list_count(infix) < MaxTokens
    /\ \E token \in CallerTokens : infix' = token_list_push(infix, token)
    /\ UNCHANGED <<text, pos, infix_ret, i, postfix, operators, ret, valid_in, valid_post, pc>>
    /\ UNCHANGED api_vars
    /\ UNCHANGED oom
    /\ UNCHANGED calls

\* the caller goes on as main does once it has its list
CallerCall ==
    /\ pc = "caller"
    /\ infix_ret' = "list"
    /\ pc' = "valid_infix"
    /\ UNCHANGED <<text, pos, infix, i, postfix, operators, ret, valid_in, valid_post>>
    /\ UNCHANGED api_vars
    /\ UNCHANGED oom
    /\ UNCHANGED calls

-----------------------------------------------------------------------------
(* parser.c *)

\* shunt_unary without the LeftParen case
shunt_unary_no_left_paren(list, index) ==
    LET prev == IF index > 0 THEN token_list_peek_index(list, index - 1) ELSE NULL_TOKEN
    IN  IF index = 0 \/ token_is_operator(prev)
        THEN [list EXCEPT !.tokens[index + 1] =
                [@ EXCEPT !.role = "TOKEN_ROLE_UNARY",
                          !.association = "TOKEN_ASSOCIATE_RIGHT",
                          !.precedence = TOKEN_PRECEDENT_UNARY]]
        ELSE list

\* variant: a token that is unary already is made binary again
shunt_unary_toggles(list, index) ==
    LET prev == IF index > 0 THEN token_list_peek_index(list, index - 1) ELSE NULL_TOKEN
    IN  IF index = 0 \/ token_is_operator(prev) \/ token_is_type_left_paren(prev)
        THEN LET symbol == list.tokens[index + 1]
             IN  [list EXCEPT !.tokens[index + 1] =
                    IF token_is_role_unary(symbol)
                    THEN [symbol EXCEPT !.role = "TOKEN_ROLE_BINARY",
                                        !.association = "TOKEN_ASSOCIATE_LEFT",
                                        !.precedence = token_precedence(symbol)]
                    ELSE [symbol EXCEPT !.role = "TOKEN_ROLE_UNARY",
                                        !.association = "TOKEN_ASSOCIATE_RIGHT",
                                        !.precedence = TOKEN_PRECEDENT_UNARY]]
        ELSE list

\* variant: only the role is set at a unary position
shunt_unary_role_only(list, index) ==
    LET prev == IF index > 0 THEN token_list_peek_index(list, index - 1) ELSE NULL_TOKEN
    IN  IF index = 0 \/ token_is_operator(prev) \/ token_is_type_left_paren(prev)
        THEN [list EXCEPT !.tokens[index + 1] = [@ EXCEPT !.role = "TOKEN_ROLE_UNARY"]]
        ELSE list

\* variant: the token is reclassified wherever it stands
shunt_unary_any_position(list, index) ==
    [list EXCEPT !.tokens[index + 1] =
        [@ EXCEPT !.role = "TOKEN_ROLE_UNARY",
                  !.association = "TOKEN_ASSOCIATE_RIGHT",
                  !.precedence = TOKEN_PRECEDENT_UNARY]]

\* the list with the token at index i reclassified when it stands in a unary position
shunt_unary(list, index) ==
    LET prev == IF index > 0 THEN token_list_peek_index(list, index - 1) ELSE NULL_TOKEN
    IN  IF index = 0 \/ token_is_operator(prev) \/ token_is_type_left_paren(prev)
        THEN [list EXCEPT !.tokens[index + 1] =
                [@ EXCEPT !.role = "TOKEN_ROLE_UNARY",
                          !.association = "TOKEN_ASSOCIATE_RIGHT",
                          !.precedence = TOKEN_PRECEDENT_UNARY]]
        ELSE list

\* the pop test with the precedence comparison turned around
shunt_precedent_pops_reversed(symbol, op) ==
    LET o1 == token_precedence(symbol)
        o2 == token_precedence(op)
    IN  o1 > o2 \/ (o2 = o1 /\ token_is_associate_left(symbol))

\* the pop test without the equal-precedence case
shunt_precedent_pops_strict(symbol, op) ==
    LET o1 == token_precedence(symbol)
        o2 == token_precedence(op)
    IN  o2 > o1

\* the pop test without the associativity check
shunt_precedent_pops_any_associativity(symbol, op) ==
    LET o1 == token_precedence(symbol)
        o2 == token_precedence(op)
    IN  o2 >= o1

\* the test of shunt_precedent that pops op, the top of the stack, for the incoming symbol
shunt_precedent_pops(symbol, op) ==
    LET o1 == token_precedence(symbol)
        o2 == token_precedence(op)
    IN  o2 > o1 \/ (o2 = o1 /\ token_is_associate_left(symbol))

\* variant: a left parenthesis on top of the stack is popped like an operator
RECURSIVE shunt_precedent_through_paren(_, _, _)
shunt_precedent_through_paren(pf, ops, symbol) ==
    LET op == token_list_peek(ops)
    IN  IF IsNull(op) THEN [postfix |-> pf, operators |-> ops]
        ELSE IF token_is_type_left_paren(op) \/ shunt_precedent_pops(symbol, op)
        THEN shunt_precedent_through_paren(token_list_push(pf, token_list_pop_token(ops)),
                                           token_list_pop_list(ops), symbol)
        ELSE [postfix |-> pf, operators |-> ops]

\* the loop of shunt_precedent: the two lists when it returns true
RECURSIVE shunt_precedent(_, _, _)
shunt_precedent(pf, ops, symbol) ==
    LET op == token_list_peek(ops)
    IN  IF ~token_is_operator(op) \/ token_is_type_left_paren(op)
        THEN [postfix |-> pf, operators |-> ops]
        ELSE IF shunt_precedent_pops(symbol, op)
        THEN shunt_precedent(token_list_push(pf, token_list_pop_token(ops)),
                             token_list_pop_list(ops), symbol)
        ELSE [postfix |-> pf, operators |-> ops]

\* the first loop of shunt_group: pop to the output until a LeftParen or the bottom
RECURSIVE shunt_group_loop(_, _)
shunt_group_loop(pf, ops) ==
    LET op == token_list_peek(ops)
    IN  IF IsNull(op) \/ token_is_type_left_paren(op) \/ token_list_is_empty(ops)
        THEN [postfix |-> pf, operators |-> ops]
        ELSE shunt_group_loop(token_list_push(pf, token_list_pop_token(ops)),
                              token_list_pop_list(ops))

\* shunt_group without the mismatch branch
shunt_group_no_mismatch(pf, ops) ==
    LET after == shunt_group_loop(pf, ops)
    IN  [postfix |-> after.postfix,
         operators |-> token_list_pop_list(after.operators), ok |-> TRUE]

\* shunt_group: the two lists and the returned flag
shunt_group(pf, ops) ==
    LET after == shunt_group_loop(pf, ops)
        op == token_list_peek(after.operators)
    IN  IF ~IsNull(op) /\ token_is_type_left_paren(op)
        THEN [postfix |-> after.postfix,
              operators |-> token_list_pop_list(after.operators), ok |-> TRUE]
        ELSE [postfix |-> after.postfix, operators |-> after.operators, ok |-> FALSE]

\* the final loop dropping the parentheses it pops
RECURSIVE shunt_drain_drops_group(_, _)
shunt_drain_drops_group(pf, ops) ==
    LET op == token_list_pop_token(ops)
    IN  IF IsNull(op) THEN [postfix |-> pf, operators |-> ops]
        ELSE shunt_drain_drops_group(IF token_is_group(op) THEN pf ELSE token_list_push(pf, op),
                                     token_list_pop_list(ops))

\* the final loop of shunt_yard: every remaining stack token goes to the output
RECURSIVE shunt_drain(_, _)
shunt_drain(pf, ops) ==
    LET op == token_list_pop_token(ops)
    IN  IF IsNull(op) THEN [postfix |-> pf, operators |-> ops]
        ELSE shunt_drain(token_list_push(pf, op), token_list_pop_list(ops))

\* the depth counter of shunt_is_valid_postfix from index on; -1 stands for return false
\* variant: a binary operator is accepted at depth 1
RECURSIVE postfix_depth_binary_at_one(_, _, _)
postfix_depth_binary_at_one(list, index, depth) ==
    IF index >= token_list_count(list) THEN depth
    ELSE LET token == token_list_peek_index(list, index)
         IN  IF token_is_number(token)
                THEN postfix_depth_binary_at_one(list, index + 1, depth + 1)
             ELSE IF token_is_role_unary(token)
                THEN IF depth < 1 THEN 0 - 1
                     ELSE postfix_depth_binary_at_one(list, index + 1, depth)
             ELSE IF token_is_role_binary(token)
                THEN IF depth < 1 THEN 0 - 1
                     ELSE postfix_depth_binary_at_one(list, index + 1, depth - 1)
             ELSE 0 - 1

RECURSIVE postfix_depth(_, _, _)
postfix_depth(list, index, depth) ==
    IF index >= token_list_count(list) THEN depth
    ELSE LET token == token_list_peek_index(list, index)
         IN  IF token_is_number(token) THEN postfix_depth(list, index + 1, depth + 1)
             ELSE IF token_is_role_unary(token)
                THEN IF depth < 1 THEN 0 - 1 ELSE postfix_depth(list, index + 1, depth)
             ELSE IF token_is_role_binary(token)
                THEN IF depth < 2 THEN 0 - 1 ELSE postfix_depth(list, index + 1, depth - 1)
             ELSE 0 - 1

shunt_is_valid_postfix(list) == postfix_depth(list, 0, 0) = 1

\* variant: an operator as the first token is rejected
RECURSIVE valid_infix_from_no_leading_operator(_, _, _)
valid_infix_from_no_leading_operator(list, index, previous) ==
    IF index >= token_list_count(list) THEN TRUE
    ELSE LET current == list.tokens[index + 1]
         IN  IF /\ token_is_operator(current) /\ token_is_operator(previous)
                /\ ~token_is_type_left_paren(previous) /\ ~token_is_type_right_paren(current)
                /\ ~(token_is_type_plus(current) \/ token_is_type_minus(current))
             THEN FALSE
             ELSE IF index = 0 /\ token_is_operator(current)
             THEN FALSE
             ELSE IF index = token_list_count(list) - 1 /\ token_is_operator(current)
             THEN FALSE
             ELSE valid_infix_from_no_leading_operator(list, index + 1, current)

\* variant: no allowance for + or - after an operator
RECURSIVE valid_infix_from_no_sign(_, _, _)
valid_infix_from_no_sign(list, index, previous) ==
    IF index >= token_list_count(list) THEN TRUE
    ELSE LET current == list.tokens[index + 1]
         IN  IF /\ token_is_operator(current) /\ token_is_operator(previous)
                /\ ~token_is_type_left_paren(previous) /\ ~token_is_type_right_paren(current)
             THEN FALSE
             ELSE IF index = token_list_count(list) - 1 /\ token_is_operator(current)
             THEN FALSE
             ELSE valid_infix_from_no_sign(list, index + 1, current)

\* the loop of shunt_is_valid_infix from index on, previous being the token before
RECURSIVE valid_infix_from(_, _, _)
valid_infix_from(list, index, previous) ==
    IF index >= token_list_count(list) THEN TRUE
    ELSE LET current == list.tokens[index + 1]
         IN  IF /\ token_is_operator(current) /\ token_is_operator(previous)
                /\ ~token_is_type_left_paren(previous) /\ ~token_is_type_right_paren(current)
                /\ ~(token_is_type_plus(current) \/ token_is_type_minus(current))
             THEN FALSE
             ELSE IF index = token_list_count(list) - 1 /\ token_is_operator(current)
             THEN FALSE
             ELSE valid_infix_from(list, index + 1, current)

shunt_is_valid_infix(list) == valid_infix_from(list, 0, NULL_TOKEN)

Bool(b) == IF b THEN "true" ELSE "false"

-----------------------------------------------------------------------------
(* main and shunt_yard *)

\* variant: the validator assigns the unary roles while it walks the list
MainValidInfix_assigns_roles ==
    /\ pc = "valid_infix"
    /\ IF infix_ret = "NULL"
       THEN /\ pc' = "crashed"
            /\ UNCHANGED <<valid_in, infix>>
       ELSE /\ valid_in' = Bool(shunt_is_valid_infix(infix))
            /\ infix' = IF token_list_is_empty(infix) THEN infix ELSE shunt_unary(infix, 0)
            /\ pc' = "shunt_yard"
    /\ UNCHANGED <<text, pos, infix_ret, i, postfix, operators, ret, valid_post>>
    /\ UNCHANGED api_vars
    /\ UNCHANGED oom
    /\ UNCHANGED calls

\* main calls shunt_is_valid_infix(infix), which reads infix->count
MainValidInfix ==
    /\ pc = "valid_infix"
    /\ IF infix_ret = "NULL"
       THEN /\ pc' = "crashed"
            /\ UNCHANGED valid_in
       ELSE /\ valid_in' = Bool(shunt_is_valid_infix(infix))
            /\ pc' = "shunt_yard"
    /\ UNCHANGED <<text, pos, infix, infix_ret, i, postfix, operators, ret, valid_post>>
    /\ UNCHANGED api_vars
    /\ UNCHANGED oom
    /\ UNCHANGED calls

\* variant: the two lists are created before the guard is tested
ShuntYardEnter_create_first ==
    /\ pc = "shunt_yard"
    /\ postfix' = token_list_create
    /\ operators' = token_list_create
    /\ IF infix_ret = "NULL" \/ token_list_is_empty(infix)
       THEN /\ ret' = "NULL"
            /\ pc' = "valid_postfix"
            /\ UNCHANGED i
       ELSE /\ i' = 0
            /\ pc' = "scan"
            /\ UNCHANGED ret
    /\ UNCHANGED <<text, pos, infix, infix_ret, valid_in, valid_post>>
    /\ UNCHANGED api_vars
    /\ UNCHANGED oom
    /\ UNCHANGED calls

\* entry of shunt_yard: the guard, then the two lists are created
ShuntYardEnter ==
    /\ pc = "shunt_yard"
    /\ IF infix_ret = "NULL" \/ token_list_is_empty(infix)
       THEN /\ ret' = "NULL"
            /\ pc' = "valid_postfix"
            /\ UNCHANGED <<i, postfix, operators>>
       ELSE /\ postfix' = token_list_create
            /\ operators' = token_list_create
            /\ i' = 0
            /\ pc' = "scan"
            /\ UNCHANGED ret
    /\ UNCHANGED <<text, pos, infix, infix_ret, valid_in, valid_post>>
    /\ UNCHANGED api_vars
    /\ UNCHANGED oom
    /\ UNCHANGED calls

\* the token the loop of shunt_yard looks at
Symbol == token_list_peek_index(infix, i)

ScanNumber ==
    /\ pc = "scan"
    /\ i < token_list_count(infix)
    /\ token_is_number(Symbol)
    /\ postfix' = token_list_push(postfix, Symbol)
    /\ i' = i + 1
    /\ UNCHANGED <<text, pos, infix, infix_ret, operators, ret, valid_in, valid_post, pc>>
    /\ UNCHANGED api_vars
    /\ UNCHANGED oom
    /\ UNCHANGED calls

\* variant: the token is copied to the stack as it was before shunt_unary
ScanOperator_copies_before_unary ==
    /\ pc = "scan"
    /\ i < token_list_count(infix)
    /\ token_is_operator(Symbol)
    /\ LET after == shunt_precedent(postfix, operators, Symbol)
       IN  /\ infix' = shunt_unary(infix, i)
           /\ postfix' = after.postfix
           /\ operators' = token_list_push(after.operators, Symbol)
    /\ i' = i + 1
    /\ UNCHANGED <<text, pos, infix_ret, ret, valid_in, valid_post, pc>>
    /\ UNCHANGED api_vars
    /\ UNCHANGED oom
    /\ UNCHANGED calls

ScanOperator ==
    /\ pc = "scan"
    /\ i < token_list_count(infix)
    /\ token_is_operator(Symbol)
    /\ LET edited == shunt_unary(infix, i)
           symbol == token_list_peek_index(edited, i)
           after == shunt_precedent(postfix, operators, symbol)
       IN  /\ infix' = edited
           /\ postfix' = after.postfix
           /\ operators' = token_list_push(after.operators, symbol)
    /\ i' = i + 1
    /\ UNCHANGED <<text, pos, infix_ret, ret, valid_in, valid_post, pc>>
    /\ UNCHANGED api_vars
    /\ UNCHANGED oom
    /\ UNCHANGED calls

ScanLeftParen ==
    /\ pc = "scan"
    /\ i < token_list_count(infix)
    /\ token_is_type_left_paren(Symbol)
    /\ operators' = token_list_push(operators, Symbol)
    /\ i' = i + 1
    /\ UNCHANGED <<text, pos, infix, infix_ret, postfix, ret, valid_in, valid_post, pc>>
    /\ UNCHANGED api_vars
    /\ UNCHANGED oom
    /\ UNCHANGED calls

\* shunt_group; when it fails, the error label frees both lists and NULL is returned
ScanRightParen ==
    /\ pc = "scan"
    /\ i < token_list_count(infix)
    /\ token_is_type_right_paren(Symbol)
    /\ LET after == shunt_group(postfix, operators)
       IN  IF after.ok
           THEN /\ postfix' = after.postfix
                /\ operators' = after.operators
                /\ i' = i + 1
                /\ UNCHANGED <<ret, pc>>
           ELSE /\ postfix' = token_list_free(after.postfix)
                /\ operators' = token_list_free(after.operators)
                /\ ret' = "NULL"
                /\ pc' = "valid_postfix"
                /\ UNCHANGED i
    /\ UNCHANGED <<text, pos, infix, infix_ret, valid_in, valid_post>>
    /\ UNCHANGED api_vars
    /\ UNCHANGED oom
    /\ UNCHANGED calls

\* a token that is no number, operator or parenthesis matches no branch of
\* the if chain: the loop goes on with the next token
ScanOther ==
    /\ pc = "scan"
    /\ i < token_list_count(infix)
    /\ ~token_is_number(Symbol)
    /\ ~token_is_operator(Symbol)
    /\ ~token_is_type_left_paren(Symbol)
    /\ ~token_is_type_right_paren(Symbol)
    /\ i' = i + 1
    /\ UNCHANGED <<text, pos, infix, infix_ret, postfix, operators, ret, valid_in, valid_post, pc>>
    /\ UNCHANGED api_vars
    /\ UNCHANGED oom
    /\ UNCHANGED calls

\* variant: the stack is not released before the output queue is returned
ShuntYardDrain_keeps_stack ==
    /\ pc = "scan"
    /\ i >= token_list_count(infix)
    /\ LET after == shunt_drain(postfix, operators)
       IN  /\ postfix' = after.postfix
           /\ operators' = after.operators
    /\ ret' = "postfix"
    /\ pc' = "valid_postfix"
    /\ UNCHANGED <<text, pos, infix, infix_ret, i, valid_in, valid_post>>
    /\ UNCHANGED api_vars
    /\ UNCHANGED oom
    /\ UNCHANGED calls

\* after the for loop: drain the stack, free it, return the output queue
ShuntYardDrain ==
    /\ pc = "scan"
    /\ i >= token_list_count(infix)
    /\ LET after == shunt_drain(postfix, operators)
       IN  /\ postfix' = after.postfix
           /\ operators' = token_list_free(after.operators)
    /\ ret' = "postfix"
    /\ pc' = "valid_postfix"
    /\ UNCHANGED <<text, pos, infix, infix_ret, i, valid_in, valid_post>>
    /\ UNCHANGED api_vars
    /\ UNCHANGED oom
    /\ UNCHANGED calls

\* main calls shunt_is_valid_postfix(postfix), which reads postfix->count
MainValidPostfix ==
    /\ pc = "valid_postfix"
    /\ IF ret = "NULL"
       THEN /\ pc' = "crashed"
            /\ UNCHANGED valid_post
       ELSE /\ valid_post' = Bool(shunt_is_valid_postfix(postfix))
            /\ pc' = "free"
    /\ UNCHANGED <<text, pos, infix, infix_ret, i, postfix, operators, ret, valid_in>>
    /\ UNCHANGED api_vars
    /\ UNCHANGED oom
    /\ UNCHANGED calls

\* token_list_dump(postfix); token_list_free(postfix); token_list_free(infix)
MainFree ==
    /\ pc = "free"
    /\ postfix' = token_list_free(postfix)
    /\ infix' = token_list_free(infix)
    /\ pc' = "exit"
    /\ UNCHANGED <<text, pos, infix_ret, i, operators, ret, valid_in, valid_post>>
    /\ UNCHANGED api_vars
    /\ UNCHANGED oom
    /\ UNCHANGED calls

-----------------------------------------------------------------------------
(* A caller of the token and list API.  It holds at most one Token pointer  *)
(* (hand): one it owns, from a token_create_* call or from token_list_pop,  *)
(* or one it borrows from token_list_peek / token_list_peek_index.  Token   *)
(* objects live at addresses; slots[k] is the address list->tokens[k - 1]   *)
(* points to.                                                               *)

\* a list of MaxCount tokens, the token in hand and the clone being made
Addrs == 1..(MaxCount + 2)

\* malloc: the lowest address that is not allocated
Fresh(h) == CHOOSE a \in Addrs : h[a] = "free" /\ \A b \in Addrs : b < a => h[b] # "free"

heap_alloc(h, a) == [h EXCEPT ![a] = "live"]

heap_free(h, a) == [h EXCEPT ![a] = "free"]

\* the address no object lives at
NULL_ADDR == 0

\* the caller holds no pointer
NO_HAND == [token |-> NULL_TOKEN, addr |-> NULL_ADDR, owner |-> "none"]

NO_CALL == [op |-> "none", lexeme |-> <<>>, index |-> 0]

\* A run is a row of pushes followed by pops; a push after a pop begins a new
\* one.  run.pending: the tokens pushed in the run and not yet popped again,
\* oldest first; run.base: the tokens that were on the list when the run
\* began; run.popped: how many pops of the run have taken a token of pending
NO_RUN == [pending |-> <<>>, base |-> <<>>, popped |-> 0]

\* the lexemes the caller hands to the constructors
CreateLexemes == {<<>>, <<"1">>, <<"1", ".">>, <<".">>, <<"+">>, <<"(">>, <<"x">>}

\* what the caller holds after a constructor returned: a new object it owns,
\* or NULL
Taken(token, h) ==
    IF IsNull(token) THEN NO_HAND
    ELSE [token |-> token, addr |-> Fresh(h), owner |-> "caller"]

\* token_create_number(lexeme), called when the caller owns no token
CreateNumber ==
    /\ pc = "list_api"
    /\ fault = "none"
    /\ hand.owner # "caller"
    /\ \E lexeme \in CreateLexemes :
          LET token == token_create_number(lexeme)
          IN  /\ hand' = Taken(token, heap)
              /\ heap' = IF IsNull(token) THEN heap ELSE heap_alloc(heap, Fresh(heap))
              /\ last' = [op |-> "token_create_number", lexeme |-> lexeme, index |-> 0]
    /\ UNCHANGED <<stack, slots, run, fault>>
    /\ UNCHANGED main_vars

\* token_create_operator(lexeme)
CreateOperator ==
    /\ pc = "list_api"
    /\ fault = "none"
    /\ hand.owner # "caller"
    /\ \E lexeme \in CreateLexemes :
          LET token == token_create_operator(lexeme)
          IN  /\ hand' = Taken(token, heap)
              /\ heap' = IF IsNull(token) THEN heap ELSE heap_alloc(heap, Fresh(heap))
              /\ last' = [op |-> "token_create_operator", lexeme |-> lexeme, index |-> 0]
    /\ UNCHANGED <<stack, slots, run, fault>>
    /\ UNCHANGED main_vars

\* token_create_group(lexeme)
CreateGroup ==
    /\ pc = "list_api"
    /\ fault = "none"
    /\ hand.owner # "caller"
    /\ \E lexeme \in CreateLexemes :
          LET token == token_create_group(lexeme)
          IN  /\ hand' = Taken(token, heap)
              /\ heap' = IF IsNull(token) THEN heap ELSE heap_alloc(heap, Fresh(heap))
              /\ last' = [op |-> "token_create_group", lexeme |-> lexeme, index |-> 0]
    /\ UNCHANGED <<stack, slots, run, fault>>
    /\ UNCHANGED main_vars

\* token_free(token) on the token the caller owns
CallerFree ==
    /\ pc = "list_api"
    /\ fault = "none"
    /\ hand.owner = "caller"
    /\ heap' = heap_free(heap, hand.addr)
    /\ fault' = IF heap[hand.addr] # "live" THEN "double_free" ELSE "none"
    /\ hand' = NO_HAND
    /\ last' = [op |-> "token_free", lexeme |-> <<>>, index |-> 0]
    /\ UNCHANGED <<stack, slots, run>>
    /\ UNCHANGED main_vars

\* variant: the slot takes the caller's pointer instead of a clone
token_list_push_slot_alias(token_addr, clone_addr) == token_addr

\* list->tokens[list->count++] = token_clone(token): the slot points to the clone
token_list_push_slot(token_addr, clone_addr) == clone_addr

\* token_list_push(stack, hand): the token in hand, owned or borrowed, is read
\* and its clone is stored in the next slot
ListPush ==
    /\ pc = "list_api"
    /\ fault = "none"
    /\ stack.mem = "live"
    /\ hand.owner # "none"
    /\ token_list_count(stack) < MaxCount
    /\ LET slot == token_list_push_slot(hand.addr, Fresh(heap))
       IN  /\ stack' = token_list_push(stack, hand.token)
           /\ slots' = Append(slots, slot)
           /\ heap' = heap_alloc(heap, slot)
    /\ fault' = IF heap[hand.addr] # "live" THEN "use_after_free" ELSE "none"
    /\ run' = IF run.popped > 0
              THEN [pending |-> <<hand.token>>, base |-> stack.tokens, popped |-> 0]
              ELSE [run EXCEPT !.pending = Append(run.pending, hand.token)]
    /\ last' = [op |-> "token_list_push", lexeme |-> <<>>, index |-> 0]
    /\ UNCHANGED hand
    /\ UNCHANGED main_vars

\* token_list_pop(stack): NULL on an empty list or an empty tail slot; else
\* the tail token is cloned, its slot cleared, the count lowered, the token
\* freed, and the caller owns the clone
ListPop ==
    /\ pc = "list_api"
    /\ fault = "none"
    /\ stack.mem = "live"
    /\ hand.owner # "caller"
    /\ stack' = token_list_pop_list(stack)
    /\ IF IsNull(token_list_peek(stack))
       THEN /\ hand' = [NO_HAND EXCEPT !.token = token_list_pop_token(stack)]
            /\ UNCHANGED <<slots, heap, run, fault>>
       ELSE LET token_addr == slots[Len(slots)]
                clone_addr == Fresh(heap)
            IN  /\ hand' = [token |-> token_list_pop_token(stack),
                            addr |-> clone_addr, owner |-> "caller"]
                /\ slots' = SubSeq(slots, 1, Len(slots) - 1)
                /\ heap' = heap_free(heap_alloc(heap, clone_addr), token_addr)
                /\ fault' = IF heap[token_addr] # "live" THEN "use_after_free" ELSE "none"
                /\ run' = IF run.pending # <<>>
                          THEN [run EXCEPT !.pending = SubSeq(run.pending, 1, Len(run.pending) - 1),
                                           !.popped = run.popped + 1]
                          ELSE [run EXCEPT !.base = stack'.tokens, !.popped = 0]
    /\ last' = [op |-> "token_list_pop", lexeme |-> <<>>, index |-> 0]
    /\ UNCHANGED main_vars

\* what the caller holds after a peek: the slot's own token, borrowed, or NULL
Peeked(token, slot) ==
    IF IsNull(token) THEN [NO_HAND EXCEPT !.token = token]
    ELSE [token |-> token, addr |-> slots[slot], owner |-> "list"]

\* token_list_peek(stack)
ListPeek ==
    /\ pc = "list_api"
    /\ fault = "none"
    /\ stack.mem = "live"
    /\ hand.owner # "caller"
    /\ hand' = Peeked(token_list_peek(stack), Len(slots))
    /\ last' = [op |-> "token_list_peek", lexeme |-> <<>>, index |-> 0]
    /\ UNCHANGED <<stack, slots, heap, run, fault>>
    /\ UNCHANGED main_vars

\* token_list_peek_index(stack, index)
ListPeekIndex ==
    /\ pc = "list_api"
    /\ fault = "none"
    /\ stack.mem = "live"
    /\ hand.owner # "caller"
    /\ \E index \in 0..MaxCount :
          /\ hand' = Peeked(token_list_peek_index(stack, index),
                            IF index < Len(slots) THEN index + 1 ELSE Len(slots))
          /\ last' = [op |-> "token_list_peek_index", lexeme |-> <<>>, index |-> index]
    /\ UNCHANGED <<stack, slots, heap, run, fault>>
    /\ UNCHANGED main_vars

\* token_list_free(stack): every slot's token is freed, then the array and
\* the list; a borrowed pointer is not kept
ListFree ==
    /\ pc = "list_api"
    /\ fault = "none"
    /\ stack.mem = "live"
    /\ stack' = token_list_free(stack)
    /\ slots' = <<>>
    /\ heap' = [a \in Addrs |-> IF \E k \in 1..Len(slots) : slots[k] = a
                                 THEN "free" ELSE heap[a]]
    /\ fault' = IF \E k \in 1..Len(slots) :
                      /\ slots[k] # NULL_ADDR
                      /\ \/ heap[slots[k]] # "live"
                         \/ \E j \in 1..(k - 1) : slots[j] = slots[k]
                THEN "double_free" ELSE "none"
    /\ hand' = IF hand.owner = "list" THEN NO_HAND ELSE hand
    /\ run' = NO_RUN
    /\ last' = [op |-> "token_list_free", lexeme |-> <<>>, index |-> 0]
    /\ UNCHANGED main_vars

\* token_list_create() once the caller has freed its list
ListCreate ==
    /\ pc = "list_api"
    /\ fault = "none"
    /\ stack.mem = "freed"
    /\ stack' = token_list_create
    /\ last' = [op |-> "token_list_create", lexeme |-> <<>>, index |-> 0]
    /\ UNCHANGED <<slots, heap, hand, run, fault>>
    /\ UNCHANGED main_vars

\* the caller starts with a new list and nothing in hand
InitList ==
    /\ text = <<>>
    /\ pos = 0
    /\ infix = NULL_LIST
    /\ infix_ret = "pending"
    /\ i = 0
    /\ postfix = NULL_LIST
    /\ operators = NULL_LIST
    /\ ret = "pending"
    /\ valid_in = "pending"
    /\ valid_post = "pending"
    /\ pc = "list_api"
    /\ stack = token_list_create
    /\ slots = <<>>
    /\ heap = [a \in Addrs |-> "free"]
    /\ hand = NO_HAND
    /\ last = NO_CALL
    /\ run = NO_RUN
    /\ fault = "none"
    /\ oom = NO_OOM
    /\ calls = NO_CALLS

NextList ==
    \/ CreateNumber
    \/ CreateOperator
    \/ CreateGroup
    \/ CallerFree
    \/ ListPush
    \/ ListPop
    \/ ListPeek
    \/ ListPeekIndex
    \/ ListFree
    \/ ListCreate

SpecList == InitList /\ [][NextList]_vars

-----------------------------------------------------------------------------
(* The same caller when malloc or realloc can return NULL inside            *)
(* token_list_push                                                          *)

\* token_list_push(stack, hand) when realloc returns NULL: false is returned
\* before anything is stored
ListPushGrowFails ==
    /\ pc = "list_api"
    /\ fault = "none"
    /\ stack.mem = "live"
    /\ hand.owner # "none"
    /\ token_list_is_full(stack)
    /\ last' = [op |-> "token_list_push: false", lexeme |-> <<>>, index |-> 0]
    /\ UNCHANGED <<stack, slots, heap, hand, run, fault>>
    /\ UNCHANGED main_vars

\* token_list_push(stack, hand) when the malloc of token_clone returns NULL:
\* the NULL is stored in the next slot, the count is raised, true is returned
ListPushCloneFails ==
    /\ pc = "list_api"
    /\ fault = "none"
    /\ stack.mem = "live"
    /\ hand.owner # "none"
    /\ token_list_count(stack) < MaxCount
    /\ stack' = token_list_push(stack, NULL_TOKEN)
    /\ slots' = Append(slots, NULL_ADDR)
    /\ fault' = IF heap[hand.addr] # "live" THEN "use_after_free" ELSE "none"
    /\ run' = IF run.popped > 0
              THEN [pending |-> <<NULL_TOKEN>>, base |-> stack.tokens, popped |-> 0]
              ELSE [run EXCEPT !.pending = Append(run.pending, NULL_TOKEN)]
    /\ last' = [op |-> "token_list_push", lexeme |-> <<>>, index |-> 0]
    /\ UNCHANGED <<heap, hand>>
    /\ UNCHANGED main_vars

NextListOom ==
    \/ CreateNumber
    \/ CreateOperator
    \/ CreateGroup
    \/ CallerFree
    \/ ListPush
    \/ ListPushGrowFails
    \/ ListPushCloneFails
    \/ ListPop
    \/ ListPeek
    \/ ListPeekIndex
    \/ ListFree
    \/ ListCreate

SpecListOom == InitList /\ [][NextListOom]_vars

-----------------------------------------------------------------------------
(* The expressions main is run on *)

Alphabet == {"1", ".", "+", "-", "*", "/", "%", "(", ")", " ", "x"}

\* every text of at most MaxLen characters over Alphabet
FreeTexts == UNION {[1..n -> Alphabet] : n \in 0..MaxLen}

\* a OP1 b OP2 c with three different literals
BinaryChains == {<<"1", o1, "2", o2, "3">> : o1 \in OpChars, o2 \in OpChars}

\* one to MaxChain signs before a literal
UnaryChains == UNION {{s \o <<"5">> : s \in [1..n -> {"+", "-"}]} : n \in 1..MaxChain}

\* "(((53 + 2) - (-5 * 4)) / 5) % 100", the expression of main
Sample ==
    <<"(", "(", "(", "5", "3", " ", "+", " ", "2", ")", " ", "-", " ",
      "(", "-", "5", " ", "*", " ", "4", ")", ")", " ", "/", " ", "5", ")",
      " ", "%", " ", "1", "0", "0">>

SampleTexts ==
    {Sample,
     <<"3", "+", "4", "*", "2">>,
     <<"(", "3", "+", "4", ")", "*", "2">>,
     <<"(", "1", "+", "2">>,
     <<"1", "+", ")">>,
     <<"2", "*", "-", "3">>,
     <<"-", "5", "*", "4">>,
     <<"1", ".", "2", ".", "3">>}

Texts == FreeTexts \cup BinaryChains \cup UnaryChains \cup SampleTexts

\* main starts in tokenizer with a text; the caller starts with an empty
\* list and no text
Init ==
    /\ \/ text \in Texts /\ pc = "tokenizer"
       \/ text = <<>> /\ pc = "caller"
    /\ pos = 0
    /\ infix = token_list_create
    /\ infix_ret = "pending"
    /\ i = 0
    /\ postfix = NULL_LIST
    /\ operators = NULL_LIST
    /\ ret = "pending"
    /\ valid_in = "pending"
    /\ valid_post = "pending"
    /\ stack = NULL_LIST
    /\ slots = <<>>
    /\ heap = [a \in Addrs |-> "free"]
    /\ hand = NO_HAND
    /\ last = NO_CALL
    /\ run = NO_RUN
    /\ fault = "none"
    /\ oom = NO_OOM
    /\ calls = NO_CALLS

Next ==
    \/ CallerPush
    \/ CallerCall
    \/ TokenizerToken
    \/ TokenizerSpace
    \/ TokenizerUnknown
    \/ TokenizerReturn
    \/ MainValidInfix
    \/ ShuntYardEnter
    \/ ScanNumber
    \/ ScanOperator
    \/ ScanLeftParen
    \/ ScanRightParen
    \/ ScanOther
    \/ ShuntYardDrain
    \/ MainValidPostfix
    \/ MainFree

Spec == Init /\ [][Next]_vars

-----------------------------------------------------------------------------
(* The same program when malloc or realloc can return NULL *)

\* the factors by which a list has grown when token_list_push calls realloc
Doublings == {1, 2, 4, 8, 16}

\* pushing the n-th of a row of tokens onto list finds the list full and calls realloc
push_grows(list, n) ==
    \E d \in Doublings : token_list_count(list) + n - 1 = list.capacity * d

\* one of the next n pushes onto list calls realloc
push_may_fail(list, n) == \E k \in 1..n : push_grows(list, k)

\* what tokenizer returns and leaves behind when an allocation fails
TokenizerFails(call, unreleased) ==
    /\ infix' = token_list_free(infix)
    /\ infix_ret' = "NULL"
    /\ pc' = "valid_infix"
    /\ oom' = [call |-> call, leaked |-> unreleased]

\* the error label of shunt_yard: both lists are freed and NULL is returned
ShuntYardFails(call, unreleased) ==
    /\ postfix' = token_list_free(postfix)
    /\ operators' = token_list_free(operators)
    /\ ret' = "NULL"
    /\ pc' = "valid_postfix"
    /\ oom' = [call |-> call, leaked |-> unreleased]

\* tokenizer: the constructor returns NULL; the list is freed, NULL is returned
TokenizerCreateFails ==
    /\ pc = "tokenizer"
    /\ \/ isdigit(CharAt(text, pos))
       \/ isop(CharAt(text, pos))
       \/ isgroup(CharAt(text, pos))
    /\ TokenizerFails("token_create", <<>>)
    /\ UNCHANGED <<text, pos, i, postfix, operators, ret, valid_in, valid_post>>
    /\ UNCHANGED api_vars
    /\ UNCHANGED calls

\* tokenizer: token_list_push returns false because realloc failed; the list
\* is freed and NULL is returned, token_free(token) is not reached
TokenizerPushFails ==
    /\ pc = "tokenizer"
    /\ \/ isdigit(CharAt(text, pos))
       \/ isop(CharAt(text, pos))
       \/ isgroup(CharAt(text, pos))
    /\ push_grows(infix, 1)
    /\ TokenizerFails("realloc", <<tokenizer_token(text, pos)>>)
    /\ UNCHANGED <<text, pos, i, postfix, operators, ret, valid_in, valid_post>>
    /\ UNCHANGED api_vars
    /\ UNCHANGED calls

\* shunt_yard: the push of a number onto the output queue fails
ScanNumberPushFails ==
    /\ pc = "scan"
    /\ i < token_list_count(infix)
    /\ token_is_number(Symbol)
    /\ push_grows(postfix, 1)
    /\ ShuntYardFails("realloc", <<>>)
    /\ UNCHANGED <<text, pos, infix, infix_ret, i, valid_in, valid_post>>
    /\ UNCHANGED api_vars
    /\ UNCHANGED calls

\* shunt_yard: a push in shunt_precedent fails, which frees the popped token,
\* or the push of the operator onto the stack fails
ScanOperatorPushFails ==
    /\ pc = "scan"
    /\ i < token_list_count(infix)
    /\ token_is_operator(Symbol)
    /\ LET edited == shunt_unary(infix, i)
           symbol == token_list_peek_index(edited, i)
           after == shunt_precedent(postfix, operators, symbol)
           pops == token_list_count(after.postfix) - token_list_count(postfix)
       IN  /\ \/ push_may_fail(postfix, pops)
              \/ push_grows(after.operators, 1)
           /\ infix' = edited
    /\ ShuntYardFails("realloc", <<>>)
    /\ UNCHANGED <<text, pos, infix_ret, i, valid_in, valid_post>>
    /\ UNCHANGED api_vars
    /\ UNCHANGED calls

\* shunt_yard: the push of a left parenthesis onto the stack fails
ScanLeftParenPushFails ==
    /\ pc = "scan"
    /\ i < token_list_count(infix)
    /\ token_is_type_left_paren(Symbol)
    /\ push_grows(operators, 1)
    /\ ShuntYardFails("realloc", <<>>)
    /\ UNCHANGED <<text, pos, infix, infix_ret, i, valid_in, valid_post>>
    /\ UNCHANGED api_vars
    /\ UNCHANGED calls

\* shunt_yard: a push in shunt_group fails, which frees the popped token
ScanRightParenPushFails ==
    /\ pc = "scan"
    /\ i < token_list_count(infix)
    /\ token_is_type_right_paren(Symbol)
    /\ LET after == shunt_group(postfix, operators)
           pops == token_list_count(after.postfix) - token_list_count(postfix)
       IN  push_may_fail(postfix, pops)
    /\ ShuntYardFails("realloc", <<>>)
    /\ UNCHANGED <<text, pos, infix, infix_ret, i, valid_in, valid_post>>
    /\ UNCHANGED api_vars
    /\ UNCHANGED calls

\* shunt_yard: the n-th push of the final loop fails; goto error skips
\* token_free(op) for the token popped last
ShuntYardDrainPushFails ==
    /\ pc = "scan"
    /\ i >= token_list_count(infix)
    /\ \E n \in 1..token_list_count(operators) :
          /\ push_grows(postfix, n)
          /\ LET op == operators.tokens[token_list_count(operators) - n + 1]
             IN  ShuntYardFails("realloc", <<token_clone(op)>>)
    /\ UNCHANGED <<text, pos, infix, infix_ret, i, valid_in, valid_post>>
    /\ UNCHANGED api_vars
    /\ UNCHANGED calls

\* main with a text, as in Init
InitOom == Init /\ pc = "tokenizer"

NextOom ==
    \/ TokenizerToken
    \/ TokenizerSpace
    \/ TokenizerUnknown
    \/ TokenizerReturn
    \/ MainValidInfix
    \/ ShuntYardEnter
    \/ ScanNumber
    \/ ScanOperator
    \/ ScanLeftParen
    \/ ScanRightParen
    \/ ShuntYardDrain
    \/ MainValidPostfix
    \/ MainFree
    \/ TokenizerCreateFails
    \/ TokenizerPushFails
    \/ ScanNumberPushFails
    \/ ScanOperatorPushFails
    \/ ScanLeftParenPushFails
    \/ ScanRightParenPushFails
    \/ ShuntYardDrainPushFails

SpecOom == InitOom /\ [][NextOom]_vars

-----------------------------------------------------------------------------
(* token_list_pop_index *)

\* index += list->count for a negative index
pop_index_normalize(list, index) ==
    IF index < 0 THEN index + token_list_count(list) ELSE index

\* the slots 0 .. count - 2 of the array after slot index has been set to
\* NULL and the loop "for (i = index; i < count - 1; ++i)" has run with the
\* lowered count: slot count - 2 is never written by the loop, and the
\* element of slot count - 1 is never read
pop_index_shift(seq, index, null) ==
    LET n == Len(seq)
    IN  [k \in 1..(n - 1) |->
            IF k - 1 < index THEN seq[k]
            ELSE IF k - 1 < n - 2 THEN seq[k + 1]
            ELSE IF index = n - 2 THEN null
            ELSE seq[k]]

\* token_list_pop_index(stack, index).  With count 1 the lowered count is 0
\* and "count - 1" wraps around in size_t: the loop copies slot after slot
\* beyond the array.  With an index below count - 1 the last element is left
\* outside the count and nothing points to it any more.
ListPopIndex ==
    /\ pc = "list_api"
    /\ fault = "none"
    /\ stack.mem = "live"
    /\ hand.owner # "caller"
    /\ \E index \in (0 - MaxCount - 1)..MaxCount :
          LET n == token_list_count(stack)
              at == pop_index_normalize(stack, index)
          IN  /\ last' = [op |-> "token_list_pop_index", lexeme |-> <<>>, index |-> index]
              /\ IF n = 0 \/ at < 0 \/ at >= n
                 THEN /\ hand' = NO_HAND
                      /\ UNCHANGED <<stack, slots, heap, run, fault>>
                 ELSE IF IsNull(stack.tokens[at + 1])
                 THEN /\ hand' = NO_HAND
                      /\ UNCHANGED <<stack, slots, heap, run, fault>>
                 ELSE LET clone_addr == Fresh(heap)
                      IN  /\ hand' = [token |-> token_clone(stack.tokens[at + 1]),
                                      addr |-> clone_addr, owner |-> "caller"]
                          /\ stack' = [stack EXCEPT
                                          !.tokens = pop_index_shift(@, at, NULL_TOKEN)]
                          /\ slots' = pop_index_shift(slots, at, NULL_ADDR)
                          /\ heap' = heap_free(heap_alloc(heap, clone_addr), slots[at + 1])
                          /\ run' = NO_RUN
                          /\ fault' = IF n = 1 THEN "out_of_bounds"
                                      ELSE IF heap[slots[at + 1]] # "live" THEN "use_after_free"
                                      ELSE IF at < n - 1 THEN "leak"
                                      ELSE "none"
    /\ UNCHANGED main_vars

NextPopIndex ==
    \/ CreateNumber
    \/ CreateOperator
    \/ CreateGroup
    \/ CallerFree
    \/ ListPush
    \/ ListPopIndex
    \/ ListPeekIndex
    \/ ListFree
    \/ ListCreate

SpecPopIndex == InitList /\ [][NextPopIndex]_vars

-----------------------------------------------------------------------------
(* Two calls of shunt_yard whose steps interleave.  Every call has its own  *)
(* infix list and its own locals i, postfix and operators; the code has no  *)
(* file-scope or static variable.                                           *)

Calls == {1, 2}

\* the expressions the two callers convert
PairTexts ==
    {<<>>,
     <<"1">>,
     <<"-", "2">>,
     <<"1", "+", "2">>,
     <<"1", "+", "2", "*", "3">>,
     <<"(", "3", "+", "4", ")", "*", "2">>,
     <<"(", "1", "+", "2">>,
     <<"1", "+", ")">>,
     <<"2", "*", "-", "3">>}

\* a call that has not started: the caller's list, the locals not yet set
call_of(list) ==
    [infix |-> list, i |-> 0, postfix |-> NULL_LIST, operators |-> NULL_LIST,
     ret |-> "pending", pc |-> "shunt_yard"]

\* the guard of shunt_yard and the creation of its two lists
shunt_yard_enter(call) ==
    IF call.infix.mem # "live" \/ token_list_is_empty(call.infix)
    THEN [call EXCEPT !.ret = "NULL", !.pc = "returned"]
    ELSE [call EXCEPT !.postfix = token_list_create,
                      !.operators = token_list_create,
                      !.i = 0,
                      !.pc = "scan"]

\* the error label: both lists are freed, NULL is returned
shunt_yard_error(call) ==
    [call EXCEPT !.postfix = token_list_free(call.postfix),
                 !.operators = token_list_free(call.operators),
                 !.ret = "NULL",
                 !.pc = "returned"]

\* one iteration of the for loop of shunt_yard
shunt_yard_scan(call) ==
    LET symbol == token_list_peek_index(call.infix, call.i)
    IN  IF token_is_number(symbol)
        THEN [call EXCEPT !.postfix = token_list_push(call.postfix, symbol),
                          !.i = call.i + 1]
        ELSE IF token_is_operator(symbol)
        THEN LET edited == shunt_unary(call.infix, call.i)
                 unary == token_list_peek_index(edited, call.i)
                 after == shunt_precedent(call.postfix, call.operators, unary)
             IN  [call EXCEPT !.infix = edited,
                              !.postfix = after.postfix,
                              !.operators = token_list_push(after.operators, unary),
                              !.i = call.i + 1]
        ELSE IF token_is_type_left_paren(symbol)
        THEN [call EXCEPT !.operators = token_list_push(call.operators, symbol),
                          !.i = call.i + 1]
        ELSE IF token_is_type_right_paren(symbol)
        THEN LET after == shunt_group(call.postfix, call.operators)
                 moved == [call EXCEPT !.postfix = after.postfix,
                                       !.operators = after.operators]
             IN  IF after.ok THEN [moved EXCEPT !.i = call.i + 1]
                 ELSE shunt_yard_error(moved)
        ELSE [call EXCEPT !.i = call.i + 1]

\* the final loop, the release of the stack and the return of the output
shunt_yard_drain(call) ==
    LET after == shunt_drain(call.postfix, call.operators)
    IN  [call EXCEPT !.postfix = after.postfix,
                     !.operators = token_list_free(after.operators),
                     !.ret = "postfix",
                     !.pc = "returned"]

\* the next step of a call
shunt_yard_step(call) ==
    IF call.pc = "shunt_yard" THEN shunt_yard_enter(call)
    ELSE IF call.i < token_list_count(call.infix) THEN shunt_yard_scan(call)
    ELSE shunt_yard_drain(call)

\* a call run from where it is to its return, with no other call beside it
RECURSIVE shunt_yard(_)
shunt_yard(call) ==
    IF call.pc = "returned" THEN call ELSE shunt_yard(shunt_yard_step(call))

\* variant: the operator stack is one object that both calls use
CallScan_shared_stack(c) ==
    /\ pc = "pair"
    /\ calls[c].pc = "scan"
    /\ calls[c].i < token_list_count(calls[c].infix)
    /\ LET after == shunt_yard_scan([calls[c] EXCEPT !.operators = calls[1].operators])
       IN  calls' = [k \in Calls |->
                        IF k = c THEN after
                        ELSE [calls[k] EXCEPT !.operators = after.operators]]
    /\ UNCHANGED <<text, pos, infix, infix_ret, i, postfix, operators, ret, valid_in,
                   valid_post, pc, oom>>
    /\ UNCHANGED api_vars

\* call c enters shunt_yard
CallEnter(c) ==
    /\ pc = "pair"
    /\ calls[c].pc = "shunt_yard"
    /\ calls' = [calls EXCEPT ![c] = shunt_yard_enter(calls[c])]
    /\ UNCHANGED <<text, pos, infix, infix_ret, i, postfix, operators, ret, valid_in,
                   valid_post, pc, oom>>
    /\ UNCHANGED api_vars

\* call c runs one iteration of its loop
CallScan(c) ==
    /\ pc = "pair"
    /\ calls[c].pc = "scan"
    /\ calls[c].i < token_list_count(calls[c].infix)
    /\ calls' = [calls EXCEPT ![c] = shunt_yard_scan(calls[c])]
    /\ UNCHANGED <<text, pos, infix, infix_ret, i, postfix, operators, ret, valid_in,
                   valid_post, pc, oom>>
    /\ UNCHANGED api_vars

\* call c leaves its loop, drains its stack and returns
CallDrain(c) ==
    /\ pc = "pair"
    /\ calls[c].pc = "scan"
    /\ calls[c].i >= token_list_count(calls[c].infix)
    /\ calls' = [calls EXCEPT ![c] = shunt_yard_drain(calls[c])]
    /\ UNCHANGED <<text, pos, infix, infix_ret, i, postfix, operators, ret, valid_in,
                   valid_post, pc, oom>>
    /\ UNCHANGED api_vars

\* two callers, each with the list tokenizer made of its expression
InitPair ==
    /\ text = <<>>
    /\ pos = 0
    /\ infix = NULL_LIST
    /\ infix_ret = "pending"
    /\ i = 0
    /\ postfix = NULL_LIST
    /\ operators = NULL_LIST
    /\ ret = "pending"
    /\ valid_in = "pending"
    /\ valid_post = "pending"
    /\ pc = "pair"
    /\ stack = NULL_LIST
    /\ slots = <<>>
    /\ heap = [a \in Addrs |-> "free"]
    /\ hand = NO_HAND
    /\ last = NO_CALL
    /\ run = NO_RUN
    /\ fault = "none"
    /\ oom = NO_OOM
    /\ calls \in [Calls -> {call_of(tokenizer(t).list) : t \in PairTexts}]

NextPair ==
    \/ \E c \in Calls : CallEnter(c)
    \/ \E c \in Calls : CallScan(c)
    \/ \E c \in Calls : CallDrain(c)

SpecPair == InitPair /\ [][NextPair]_vars

-----------------------------------------------------------------------------
(* Vocabulary of the properties *)

Lexemes(list) == [k \in 1..token_list_count(list) |-> list.tokens[k].lexeme]

Types(list) == [k \in 1..token_list_count(list) |-> list.tokens[k].type]

Roles(list) == [k \in 1..token_list_count(list) |-> list.tokens[k].role]

Reverse(s) == [k \in 1..Len(s) |-> s[Len(s) + 1 - k]]

\* shunt_yard has returned to main and main has not yet released anything
Returned == pc = "valid_postfix"

Succeeded == Returned /\ ret = "postfix" /\ postfix.mem = "live"

Failed == Returned /\ ret = "NULL"

\* the text without its whitespace
RECURSIVE Strip(_)
Strip(t) ==
    IF t = <<>> THEN <<>>
    ELSE IF isspace(Head(t)) THEN Strip(Tail(t))
    ELSE <<Head(t)>> \o Strip(Tail(t))

\* whitespace that stands between two characters of numeric literals
SplitsLiteral(t) ==
    \E a, b \in 1..Len(t) :
        /\ a + 1 < b
        /\ t[a] \in DigitChars \cup {"."}
        /\ t[b] \in DigitChars \cup {"."}
        /\ \A k \in (a + 1)..(b - 1) : isspace(t[k])

\* literal -> INTEGER | FLOAT, as the lexer recognises them
IsLiteral(s) ==
    /\ Len(s) >= 1
    /\ isdigit(s[1])
    /\ \A k \in 1..Len(s) : isdigit(s[k]) \/ s[k] = "."
    /\ Cardinality({k \in 1..Len(s) : s[k] = "."}) <= 1

\* the production rules of the README over a text without whitespace
RECURSIVE IsUnary(_)
IsUnary(s) ==
    \/ IsLiteral(s)
    \/ Len(s) >= 2 /\ s[1] \in {"+", "-"} /\ IsUnary(Tail(s))

RECURSIVE IsExpr(_)
RECURSIVE IsTerm(_)
IsFactor(s) ==
    \/ IsUnary(s)
    \/ Len(s) >= 3 /\ s[1] = "(" /\ s[Len(s)] = ")" /\ IsExpr(SubSeq(s, 2, Len(s) - 1))

IsTerm(s) ==
    \/ IsFactor(s)
    \/ \E k \in 2..(Len(s) - 1) :
        /\ s[k] \in {"*", "/", "%"}
        /\ IsFactor(SubSeq(s, k + 1, Len(s)))
        /\ IsTerm(SubSeq(s, 1, k - 1))

IsExpr(s) ==
    \/ IsTerm(s)
    \/ \E k \in 2..(Len(s) - 1) :
        /\ s[k] \in {"+", "-"}
        /\ IsTerm(SubSeq(s, k + 1, Len(s)))
        /\ IsExpr(SubSeq(s, 1, k - 1))

\* the text is an expression of the README grammar
ValidExpression(t) == ~SplitsLiteral(t) /\ IsExpr(Strip(t))

\* the operator role triple set by shunt_unary
IsUnaryTriple(token) ==
    /\ token.role = "TOKEN_ROLE_UNARY"
    /\ token.association = "TOKEN_ASSOCIATE_RIGHT"
    /\ token.precedence = TOKEN_PRECEDENT_UNARY

\* the operator role pair set by token_create_operator
IsBinaryPair(token) ==
    /\ token.role = "TOKEN_ROLE_BINARY"
    /\ token.association = "TOKEN_ASSOCIATE_LEFT"

\* index (0-based) is the first position or follows an operator or a LeftParen
UnaryPosition(list, index) ==
    \/ index = 0
    \/ list.tokens[index].type \in OperatorTypes \cup {"TOKEN_TYPE_LEFT_PAREN"}

\* the step of shunt_yard that handles an operator token
OperatorStep == pc = "scan" /\ i < token_list_count(infix) /\ token_is_operator(Symbol)

\* the infix sequence is literal, operator, literal, operator, literal
IsBinaryChain(list) ==
    /\ token_list_count(list) = 5
    /\ \A k \in {1, 3, 5} : token_is_number(list.tokens[k])
    /\ \A k \in {2, 4} : token_is_operator(list.tokens[k])

\* the infix sequence is n >= 1 sign operators and then one literal
IsSignChain(list) ==
    /\ token_list_count(list) >= 2
    /\ token_is_number(list.tokens[token_list_count(list)])
    /\ \A k \in 1..(token_list_count(list) - 1) :
        token_is_type_plus(list.tokens[k]) \/ token_is_type_minus(list.tokens[k])

-----------------------------------------------------------------------------
(* Properties *)

\* C1: for every expression of the README grammar, once shunt_yard has returned,
\* tokenizer has succeeded, shunt_yard has succeeded and shunt_is_valid_postfix
\* is true of the converted sequence.
C1_ValidExpressionGivesValidPostfix ==
    (pc \in {"valid_postfix", "free", "crashed"} /\ ValidExpression(text))
        => /\ infix_ret = "list"
           /\ ret = "postfix"
           /\ shunt_is_valid_postfix(postfix)

\* C2: in the precedence resolution of shunt_yard an incoming unary operator never
\* pops a binary operator off the stack, and an incoming binary operator always
\* pops a unary operator that is on top of the stack.
C2_UnaryBindsTighter ==
    [][OperatorStep =>
        LET symbol == infix'.tokens[i + 1]
            top == token_list_peek(operators)
            popped == token_list_count(postfix') > token_list_count(postfix)
        IN  /\ (token_is_role_unary(symbol) /\ token_is_operator(top)
                    /\ token_is_role_binary(top)) => ~popped
            /\ (token_is_role_binary(symbol) /\ token_is_operator(top)
                    /\ token_is_role_unary(top)) => popped]_vars

\* C3: tokenizing and converting "(((53 + 2) - (-5 * 4)) / 5) % 100" succeeds and
\* yields the lexemes 53 2 + 5 - 4 * - 5 / 100 %.
C3_SamplePostfix ==
    (Returned /\ text = Sample)
        => /\ ret = "postfix"
           /\ Lexemes(postfix) =
                <<<<"5", "3">>, <<"2">>, <<"+">>, <<"5">>, <<"-">>, <<"4">>, <<"*">>,
                  <<"-">>, <<"5">>, <<"/">>, <<"1", "0", "0">>, <<"%">>>>

C5_PrecedenceLaw ==
    (Returned /\ IsBinaryChain(infix))
        => LET l == Lexemes(infix)
               p1 == token_precedence(infix.tokens[2])
               p2 == token_precedence(infix.tokens[4])
           IN  /\ p1 > p2 => ret = "postfix"
                    /\ Lexemes(postfix) = <<l[1], l[3], l[2], l[5], l[4]>>
               /\ p1 < p2 => ret = "postfix"
                    /\ Lexemes(postfix) = <<l[1], l[3], l[5], l[4], l[2]>>

\* "3+4*2" has been converted to 3 4 2 * +
C5_Witness ==
    /\ Succeeded
    /\ text = <<"3", "+", "4", "*", "2">>
    /\ Lexemes(postfix) = <<<<"3">>, <<"4">>, <<"2">>, <<"*">>, <<"+">>>>

\* C6: for binary operators of equal precedence a OP1 b OP2 c gives a b OP1 c OP2.
C6_LeftAssociative ==
    (Returned /\ IsBinaryChain(infix)
        /\ token_precedence(infix.tokens[2]) = token_precedence(infix.tokens[4]))
        => LET l == Lexemes(infix)
           IN  /\ ret = "postfix"
               /\ Lexemes(postfix) = <<l[1], l[3], l[2], l[5], l[4]>>
               /\ Roles(postfix)[3] = "TOKEN_ROLE_BINARY"
               /\ Roles(postfix)[5] = "TOKEN_ROLE_BINARY"

\* "1-2-3" has been converted to 1 2 - 3 -
C6_Witness ==
    /\ Succeeded
    /\ text = <<"1", "-", "2", "-", "3">>
    /\ Lexemes(postfix) = <<<<"1">>, <<"2">>, <<"-">>, <<"3">>, <<"-">>>>

\* C7, the conversion of a chain: n >= 1 signs and a literal give the literal
\* and then the n signs in reverse order, each with role Unary.
C7_ChainReversed ==
    (Returned /\ IsSignChain(infix))
        => LET n == token_list_count(infix) - 1
           IN  /\ ret = "postfix"
               /\ Lexemes(postfix) =
                    <<infix.tokens[n + 1].lexeme>> \o Reverse(SubSeq(Lexemes(infix), 1, n))
               /\ \A k \in 2..(n + 1) : postfix.tokens[k].role = "TOKEN_ROLE_UNARY"

\* C7, the step: an incoming unary sign does not pop a unary sign that is on top
\* of the stack.
C7_NoPopOfUnaryByUnary ==
    OperatorStep =>
        LET symbol == infix'.tokens[i + 1]
            top == token_list_peek(operators)
        IN  (/\ token_is_role_unary(symbol)
             /\ token_is_type_plus(symbol) \/ token_is_type_minus(symbol)
             /\ token_is_role_unary(top)
             /\ token_is_type_plus(top) \/ token_is_type_minus(top))
                => /\ postfix' = postfix
                   /\ operators'.tokens = Append(operators.tokens, symbol)

NoLeftParen(list) ==
    \A k \in 1..token_list_count(list) : ~token_is_type_left_paren(list.tokens[k])

\* C8: a RightParen handled while the operator stack holds no LeftParen makes the
\* conversion fail: NULL is returned and the output queue and the operator stack
\* are both freed.
C8_MismatchedRightParenFails ==
    [][(/\ pc = "scan"
        /\ i < token_list_count(infix)
        /\ token_is_type_right_paren(Symbol)
        /\ NoLeftParen(operators))
            => /\ ret' = "NULL"
               /\ postfix'.mem = "freed"
               /\ operators'.mem = "freed"
               /\ pc' = "valid_postfix"]_vars

\* "1+)" has failed with both lists freed
C8_Witness ==
    /\ Failed
    /\ text = <<"1", "+", ")">>
    /\ i = 2
    /\ postfix.mem = "freed"
    /\ operators.mem = "freed"

C10_NoParenInOutput ==
    (Returned /\ ret = "postfix")
        => \A k \in 1..token_list_count(postfix) : ~token_is_group(postfix.tokens[k])

-----------------------------------------------------------------------------
(* Input the loop of shunt_yard does not recognise *)

\* a token that is no literal, operator or parenthesis
IsUnknownToken(token) ==
    /\ token.kind \notin {"TOKEN_KIND_LITERAL", "TOKEN_KIND_OPERATOR", "TOKEN_KIND_GROUP"}
    /\ token.type \notin LiteralTypes \cup OperatorTypes \cup GroupTypes

HasUnknownToken(list) ==
    \E k \in 1..Len(list.tokens) : IsUnknownToken(list.tokens[k])

\* C11: when shunt_yard has returned from an infix sequence that holds a token
\* which is no literal, operator, left or right parenthesis, it has returned
\* NULL: the conversion has failed
C11_UnknownTokenFails ==
    (Returned /\ infix_ret = "list" /\ HasUnknownToken(infix)) => ret = "NULL"

-----------------------------------------------------------------------------
(* Empty input *)

\* the text holds nothing but whitespace (the empty text included)
AllSpace(t) == \A k \in 1..Len(t) : isspace(t[k])

\* C12: when tokenizer leaves a text made only of whitespace (or the empty
\* text) it returns a live list with no token in it, not NULL; and when
\* shunt_yard is entered with an empty list it returns NULL and neither the
\* output queue nor the operator stack has been allocated
C12_EmptyInput ==
    [][/\ (pc = "tokenizer" /\ pc' # "tokenizer" /\ AllSpace(text))
            => /\ infix_ret' = "list"
               /\ infix'.mem = "live"
               /\ token_list_count(infix') = 0
       /\ (pc = "shunt_yard" /\ pc' # "shunt_yard"
              /\ infix_ret = "list" /\ token_list_is_empty(infix))
            => /\ ret' = "NULL"
               /\ pc' = "valid_postfix"
               /\ postfix' = NULL_LIST
               /\ operators' = NULL_LIST]_vars

\* a text of whitespace went through tokenizer and shunt_yard has rejected
\* the empty list
C12_Witness ==
    /\ Len(text) > 0
    /\ AllSpace(text)
    /\ infix_ret = "list"
    /\ token_list_is_empty(infix)
    /\ Returned
    /\ ret = "NULL"

-----------------------------------------------------------------------------
(* Characters the tokenizer rejects *)

\* the '.' at position p (0-based) directly follows a run of digits that
\* begins a literal: it is the one decimal point the literal may hold
DotInLiteral(t, p) ==
    /\ CharAt(t, p) = "."
    /\ \E q \in 0..(p - 1) :
          /\ \A k \in q..(p - 1) : isdigit(CharAt(t, k))
          /\ q = 0 \/ ~(isdigit(CharAt(t, q - 1)) \/ CharAt(t, q - 1) = ".")

\* position p holds a character that is no digit, operator, parenthesis or
\* whitespace and is not the decimal point of a literal
BadAt(t, p) ==
    /\ p \in 0..(Len(t) - 1)
    /\ ~isdigit(CharAt(t, p))
    /\ ~isop(CharAt(t, p))
    /\ ~isgroup(CharAt(t, p))
    /\ ~isspace(CharAt(t, p))
    /\ ~DotInLiteral(t, p)

HasBad(t) == \E p \in 0..(Len(t) - 1) : BadAt(t, p)

FirstBad(t) == CHOOSE p \in 0..(Len(t) - 1) : BadAt(t, p) /\ \A q \in 0..(p - 1) : ~BadAt(t, q)

\* C13: on a text that holds a character outside the four classes at a
\* position outside a numeric literal, tokenizer never scans past the first
\* such character, and once it has left it has returned NULL with the list
\* freed and no token left in it
C13_FailFast ==
    HasBad(text) =>
        IF pc = "tokenizer"
        THEN pos <= FirstBad(text)
        ELSE /\ infix_ret = "NULL"
             /\ infix.mem = "freed"
             /\ infix.tokens = <<>>
             /\ pos = FirstBad(text)

\* tokenizer has failed after it had pushed at least one token
C13_Witness ==
    /\ HasBad(text)
    /\ FirstBad(text) > 0
    /\ ~AllSpace(SubSeq(text, 1, FirstBad(text)))
    /\ pc = "valid_infix"
    /\ infix_ret = "NULL"

-----------------------------------------------------------------------------
(* Numeric literals *)

\* how many '.' the lexeme holds
Dots(lexeme) == Cardinality({k \in 1..Len(lexeme) : lexeme[k] = "."})

\* a digit first, then digits and at most one '.'
IsNumeral(lexeme) ==
    /\ Len(lexeme) > 0
    /\ isdigit(lexeme[1])
    /\ \A k \in 1..Len(lexeme) : isdigit(lexeme[k]) \/ lexeme[k] = "."
    /\ Dots(lexeme) <= 1

OneTwoThree == <<"1", ".", "2", ".", "3">>

\* C14: every literal token of the infix list starts with a digit, holds
\* digits and at most one '.', and is Float exactly when it holds a '.';
\* a tokenizer step at a digit pushes the characters from the scan position
\* up to the new one, and the character it stops at is no digit and is a '.'
\* only if the literal already holds one; on the text 1.2.3 the literal 1.2
\* is pushed and tokenizer then returns NULL at the second '.'
C14_NumericLiteral ==
    /\ [](\A k \in 1..Len(infix.tokens) :
            infix.tokens[k].type \in LiteralTypes =>
                /\ IsNumeral(infix.tokens[k].lexeme)
                /\ infix.tokens[k].type = "TOKEN_TYPE_FLOAT"
                       <=> Dots(infix.tokens[k].lexeme) = 1)
    /\ []((text = OneTwoThree /\ pc # "tokenizer")
            => (infix_ret = "NULL" /\ pos = 3))
    /\ [][(pc = "tokenizer" /\ isdigit(CharAt(text, pos)))
            => /\ pos' > pos
               /\ token_list_peek(infix').lexeme = SubSeq(text, pos + 1, pos')
               /\ token_list_peek(infix').type \in LiteralTypes
               /\ token_list_count(infix') = token_list_count(infix) + 1
               /\ ~isdigit(CharAt(text, pos'))
               /\ CharAt(text, pos') = "." => Dots(SubSeq(text, pos + 1, pos')) = 1
               /\ text = OneTwoThree
                    => Lexemes(infix') = <<<<"1", ".", "2">>>>]_vars

\* tokenizer has pushed the literal 1.2 of the text 1.2.3 and stands at the
\* second '.'
C14_Witness ==
    /\ text = OneTwoThree
    /\ pc = "tokenizer"
    /\ pos = 3
    /\ Lexemes(infix) = <<<<"1", ".", "2">>>>
    /\ Types(infix) = <<"TOKEN_TYPE_FLOAT">>

-----------------------------------------------------------------------------
(* The lexemes against the text *)

\* the sequences of a sequence of sequences, joined in order
RECURSIVE Concat(_)
Concat(seqs) == IF seqs = <<>> THEN <<>> ELSE Head(seqs) \o Concat(Tail(seqs))

\* C15: while tokenizer scans, the lexemes pushed so far, joined in order,
\* are the consumed part of the text without its whitespace; a step either
\* appends the characters between the old and the new scan position as one
\* non-empty lexeme, or appends nothing and has moved over whitespace only;
\* and when tokenizer returns a list the whole text has been consumed, no
\* lexeme is empty and the joined lexemes are the text without its whitespace
C15_LexemesCoverText ==
    /\ [](pc = "tokenizer"
            => Concat(Lexemes(infix)) = Strip(SubSeq(text, 1, pos)))
    /\ [][pc = "tokenizer" =>
            /\ pos <= pos' /\ pos' <= Len(text)
            /\ infix_ret' # "NULL" =>
                 \/ /\ pos' > pos
                    /\ Lexemes(infix') = Append(Lexemes(infix), SubSeq(text, pos + 1, pos'))
                 \/ /\ Lexemes(infix') = Lexemes(infix)
                    /\ AllSpace(SubSeq(text, pos + 1, pos'))
            /\ infix_ret' = "list" =>
                 /\ pos' = Len(text)
                 /\ \A k \in 1..token_list_count(infix') : Len(infix'.tokens[k].lexeme) > 0
                 /\ Concat(Lexemes(infix')) = Strip(text)]_vars

\* tokenizer has returned a list of several tokens, one of them longer than
\* one character, from a text with whitespace in it
C15_Witness ==
    /\ pc = "valid_infix"
    /\ infix_ret = "list"
    /\ Len(text) > 0
    /\ ~AllSpace(text)
    /\ Strip(text) # text
    /\ token_list_count(infix) >= 2
    /\ \E k \in 1..token_list_count(infix) : Len(infix.tokens[k].lexeme) >= 2

-----------------------------------------------------------------------------
(* Tokenizing the joined lexemes again *)

\* tokenizer, run on the joined lexemes of the list, succeeds and gives as
\* many tokens with the same kind and type at every position
Retokenizes(list) ==
    LET again == tokenizer(Concat(Lexemes(list)))
    IN  /\ again.ok
        /\ token_list_count(again.list) = token_list_count(list)
        /\ \A k \in 1..token_list_count(list) :
              /\ again.list.tokens[k].kind = list.tokens[k].kind
              /\ again.list.tokens[k].type = list.tokens[k].type

\* no literal of the list is directly followed by another literal
NoAdjacentLiterals(list) ==
    \A k \in 1..(token_list_count(list) - 1) :
        ~(list.tokens[k].type \in LiteralTypes /\ list.tokens[k + 1].type \in LiteralTypes)

\* C16 as stated: whenever tokenizer returns a list, the joined lexemes
\* tokenize again to a list of the same length with the same kinds and types
C16_RetokenizeAny ==
    [][(pc = "tokenizer" /\ infix_ret' = "list") => Retokenizes(infix')]_vars

\* C16: whenever tokenizer returns a list in which no literal is directly
\* followed by another literal, the joined lexemes tokenize again to a list
\* of the same length with the same kinds and types
C16_RetokenizeSeparated ==
    [][(pc = "tokenizer" /\ infix_ret' = "list" /\ NoAdjacentLiterals(infix'))
          => Retokenizes(infix')]_vars

\* tokenizer has returned several tokens, no two literals adjacent, from a
\* text with whitespace that the joined lexemes no longer hold
C16_Witness ==
    /\ pc = "valid_infix"
    /\ infix_ret = "list"
    /\ Len(text) > 0
    /\ Strip(text) # text
    /\ token_list_count(infix) >= 3
    /\ NoAdjacentLiterals(infix)
    /\ Retokenizes(infix)

-----------------------------------------------------------------------------
(* The token constructors *)

Constructors == {"token_create_number", "token_create_operator", "token_create_group"}

\* the first character of the lexeme is of the category the constructor makes
LeadsCategory(op, lexeme) ==
    IF op = "token_create_number" THEN isdigit(CharAt(lexeme, 0))
    ELSE IF op = "token_create_operator" THEN isop(CharAt(lexeme, 0))
    ELSE isgroup(CharAt(lexeme, 0))

\* C17: after a call of token_create_number, token_create_operator or
\* token_create_group on a lexeme whose first character is not of the
\* constructor's category the caller holds no token, and a token a constructor
\* returned never has an empty lexeme
C17_ConstructorsReject ==
    last.op \in Constructors =>
        /\ ~LeadsCategory(last.op, last.lexeme) => hand.owner = "none"
        /\ hand.owner = "caller" => hand.token.lexeme # <<>>

-----------------------------------------------------------------------------
(* Ownership of the token objects *)

\* C18: no memory error has happened: no freed token was read or freed again;
\* every slot of the list points to a live token of its own, no two slots to
\* the same one, and the token the caller owns is live and is in no slot
C18_NoAliasNoDoubleFree ==
    /\ fault = "none"
    /\ Len(slots) = token_list_count(stack)
    /\ \A k \in 1..Len(slots) : heap[slots[k]] = "live"
    /\ \A j, k \in 1..Len(slots) : j # k => slots[j] # slots[k]
    /\ hand.owner # "none" => heap[hand.addr] = "live"
    /\ hand.owner = "caller" => \A k \in 1..Len(slots) : slots[k] # hand.addr
    /\ hand.owner = "list" => \E k \in 1..Len(slots) : slots[k] = hand.addr

\* the caller owns the clone of a token it has popped off a list that still
\* holds two tokens, at an address that was in use before
C18_Witness ==
    /\ last.op = "token_list_pop"
    /\ hand.owner = "caller"
    /\ Len(slots) >= 2
    /\ \E a \in Addrs : a > hand.addr /\ heap[a] = "live"

-----------------------------------------------------------------------------
(* Calls that find nothing *)

\* C19: a token_list_pop or token_list_peek on an empty list, and a
\* token_list_peek_index with an index at or past the count, leave the caller
\* with no token and leave the list (count, capacity, contents) as it was
C19_NothingToReturn ==
    [][(\/ /\ last'.op \in {"token_list_pop", "token_list_peek"}
           /\ token_list_count(stack) = 0
        \/ /\ last'.op = "token_list_peek_index"
           /\ last'.index >= token_list_count(stack))
         => /\ IsNull(hand'.token)
            /\ hand'.owner = "none"
            /\ stack' = stack
            /\ slots' = slots]_vars

\* token_list_peek_index was called past the end of a list that holds tokens
C19_Witness ==
    /\ last.op = "token_list_peek_index"
    /\ token_list_count(stack) >= 1
    /\ last.index >= token_list_count(stack)
    /\ hand.owner = "none"

-----------------------------------------------------------------------------
(* The list as a stack *)

\* equal in lexeme, type, kind, role, associativity and precedence
TokenEq(a, b) ==
    /\ a.lexeme = b.lexeme
    /\ a.type = b.type
    /\ a.kind = b.kind
    /\ a.role = b.role
    /\ a.association = b.association
    /\ a.precedence = b.precedence

\* C20: the list holds, in order, the tokens that were on it before the
\* pushes of the current run followed by the pushed tokens not yet popped, so
\* that when all of them are popped again it has the count and the elements
\* it had before; and a pop hands the caller a token equal to the one pushed
\* last among those not yet popped
C20_Lifo ==
    /\ [](stack.mem = "live" =>
            /\ token_list_count(stack) = Len(run.base) + Len(run.pending)
            /\ \A k \in 1..token_list_count(stack) :
                  TokenEq(stack.tokens[k], (run.base \o run.pending)[k]))
    /\ [][(last'.op = "token_list_pop" /\ run.pending # <<>>)
            => /\ hand'.owner = "caller"
               /\ TokenEq(hand'.token, run.pending[Len(run.pending)])
               /\ token_list_count(stack') = token_list_count(stack) - 1]_vars

\* two pushes of different tokens have been followed by two pops, on a list
\* that held a token before
C20_Witness ==
    /\ last.op = "token_list_pop"
    /\ run.popped >= 2
    /\ run.pending = <<>>
    /\ Len(run.base) >= 1
    /\ hand.owner = "caller"
    /\ hand.token # run.base[Len(run.base)]

-----------------------------------------------------------------------------
(* Count and capacity *)

\* C21: a list token_list_create has just made has count 0 and capacity 1; a
\* live list has 0 <= count <= capacity; while the list lives its capacity
\* never goes down, and it changes only in a token_list_push made at
\* count = capacity, which doubles it
C21_Capacity ==
    /\ [](stack.mem = "live" =>
            /\ 0 <= token_list_count(stack)
            /\ token_list_count(stack) <= stack.capacity)
    /\ [][/\ last'.op = "token_list_create" =>
               (token_list_count(stack') = 0 /\ stack'.capacity = 1)
          /\ (stack.mem = "live" /\ stack'.mem = "live") =>
               /\ stack'.capacity >= stack.capacity
               /\ stack'.capacity # stack.capacity =>
                    /\ last'.op = "token_list_push"
                    /\ token_list_count(stack) = stack.capacity
                    /\ stack'.capacity = 2 * stack.capacity
               /\ (last'.op = "token_list_push"
                      /\ token_list_count(stack) = stack.capacity) =>
                    stack'.capacity = 2 * stack.capacity]_vars

\* the list has grown twice and has been popped down to one token
C21_Witness ==
    /\ stack.mem = "live"
    /\ stack.capacity = 4
    /\ token_list_count(stack) = 1
    /\ last.op = "token_list_pop"

-----------------------------------------------------------------------------
(* The postfix validator *)

\* the depth counter after the first n tokens of seq: ok is FALSE once a
\* token has been rejected
RECURSIVE CounterAfter(_, _)
CounterAfter(seq, n) ==
    IF n = 0 THEN [ok |-> TRUE, depth |-> 0]
    ELSE LET before == CounterAfter(seq, n - 1)
             token == seq[n]
         IN  IF ~before.ok THEN before
             ELSE IF token.kind = "TOKEN_KIND_LITERAL"
                THEN [ok |-> TRUE, depth |-> before.depth + 1]
             ELSE IF token.role = "TOKEN_ROLE_UNARY"
                THEN [ok |-> before.depth >= 1, depth |-> before.depth]
             ELSE IF token.role = "TOKEN_ROLE_BINARY"
                THEN [ok |-> before.depth >= 2, depth |-> before.depth - 1]
             ELSE [ok |-> FALSE, depth |-> before.depth]

\* the counter never rejects and ends at exactly 1
CounterAccepts(seq) ==
    /\ CounterAfter(seq, Len(seq)).ok
    /\ CounterAfter(seq, Len(seq)).depth = 1

\* C22: once main has called shunt_is_valid_postfix on the list shunt_yard
\* returned, the verdict is true exactly when the depth counter over the
\* tokens of that list never rejects and ends at 1; for the empty list the
\* verdict is false
C22_PostfixVerdict ==
    pc = "free" =>
        /\ valid_post = Bool(CounterAccepts(postfix.tokens))
        /\ token_list_is_empty(postfix) => valid_post = "false"

\* a list with a unary and a binary operator has been accepted
C22_Witness ==
    /\ pc = "free"
    /\ valid_post = "true"
    /\ \E k \in 1..token_list_count(postfix) : token_is_role_unary(postfix.tokens[k])
    /\ \E k \in 1..token_list_count(postfix) : token_is_role_binary(postfix.tokens[k])

-----------------------------------------------------------------------------
(* The infix validator *)

IsOperatorToken(token) == token.kind = "TOKEN_KIND_OPERATOR"

IsSignToken(token) == token.type \in {"TOKEN_TYPE_PLUS", "TOKEN_TYPE_MINUS"}

\* the last token is an operator
EndsWithOperator(seq) == Len(seq) > 0 /\ IsOperatorToken(seq[Len(seq)])

\* two consecutive tokens are operators and the second is neither + nor -
HasOperatorPair(seq) ==
    \E k \in 1..(Len(seq) - 1) :
        /\ IsOperatorToken(seq[k])
        /\ IsOperatorToken(seq[k + 1])
        /\ ~IsSignToken(seq[k + 1])

\* shunt_is_valid_infix has been called on the list, which is still there
InfixJudged == valid_in # "pending" /\ infix.mem = "live"

\* C23: the verdict of shunt_is_valid_infix on the infix list is false
\* exactly when the last token is an operator or two consecutive tokens are
\* operators with the second neither + nor -
C23_InfixVerdict ==
    InfixJudged =>
        (valid_in = "false" <=> (EndsWithOperator(infix.tokens) \/ HasOperatorPair(infix.tokens)))

\* a list with an operator directly followed by a sign has been accepted
C23_Witness ==
    /\ InfixJudged
    /\ valid_in = "true"
    /\ \E k \in 1..(token_list_count(infix) - 1) :
          /\ IsOperatorToken(infix.tokens[k])
          /\ IsSignToken(infix.tokens[k + 1])

-----------------------------------------------------------------------------
(* An unmatched right parenthesis in front of the infix validator *)

\* how many left parentheses among the first n tokens of seq are not closed
RECURSIVE OpenAfter(_, _)
OpenAfter(seq, n) ==
    IF n = 0 THEN 0
    ELSE LET open == OpenAfter(seq, n - 1)
         IN  IF seq[n].type = "TOKEN_TYPE_LEFT_PAREN" THEN open + 1
             ELSE IF seq[n].type = "TOKEN_TYPE_RIGHT_PAREN" /\ open > 0 THEN open - 1
             ELSE open

\* the list with a ')' token put in after its first p tokens
WithRightParen(list, p) ==
    [list EXCEPT !.tokens = SubSeq(list.tokens, 1, p)
                             \o <<token_create_group(<<")">>)>>
                             \o SubSeq(list.tokens, p + 1, Len(list.tokens))]

\* C24 as stated: when shunt_is_valid_infix has accepted the infix list, it
\* rejects the list with a ')' put in at any place where no left parenthesis
\* is open
C24_UnmatchedParenRejected ==
    (InfixJudged /\ valid_in = "true") =>
        \A p \in 0..token_list_count(infix) :
            OpenAfter(infix.tokens, p) = 0 => ~shunt_is_valid_infix(WithRightParen(infix, p))

-----------------------------------------------------------------------------
(* Well-formed sequences in front of the infix validator *)

\* every right parenthesis closes a left one and none stays open
Balanced(seq) ==
    /\ OpenAfter(seq, Len(seq)) = 0
    /\ \A n \in 1..Len(seq) :
          seq[n].type = "TOKEN_TYPE_RIGHT_PAREN" => OpenAfter(seq, n - 1) > 0

\* C25 as stated: shunt_is_valid_infix accepts every list with balanced
\* parentheses and no two adjacent binary operators
C25_WellFormedAccepted ==
    (InfixJudged /\ Balanced(infix.tokens) /\ ~HasOperatorPair(infix.tokens))
        => valid_in = "true"

\* C25: shunt_is_valid_infix accepts every list with balanced parentheses,
\* no operator directly followed by an operator other than + and -, and a
\* last token that is not an operator
C25_WellFormedNoTrailingAccepted ==
    (/\ InfixJudged
     /\ Balanced(infix.tokens)
     /\ ~HasOperatorPair(infix.tokens)
     /\ ~EndsWithOperator(infix.tokens))
        => valid_in = "true"

\* an accepted list of five or more tokens with a closed pair of parentheses
\* and an operator
C25_Witness ==
    /\ InfixJudged
    /\ valid_in = "true"
    /\ token_list_count(infix) >= 5
    /\ Balanced(infix.tokens)
    /\ \E k \in 1..token_list_count(infix) : infix.tokens[k].type = "TOKEN_TYPE_LEFT_PAREN"
    /\ \E k \in 1..token_list_count(infix) : IsOperatorToken(infix.tokens[k])

-----------------------------------------------------------------------------
(* The validators only read *)

\* C26: the step in which shunt_is_valid_infix runs leaves the infix list as
\* it was, and the step in which shunt_is_valid_postfix runs leaves the
\* postfix list (and the infix list) as it was: same count, same order, every
\* field of every token the same
C26_ValidatorsReadOnly ==
    [][/\ pc = "valid_infix" => infix' = infix
       /\ pc = "valid_postfix" => (postfix' = postfix /\ infix' = infix)]_vars

\* both validators have run on lists with a unary operator in them, one
\* rejecting and one accepting
C26_Witness ==
    /\ pc = "free"
    /\ valid_in = "false"
    /\ valid_post = "true"
    /\ token_is_role_unary(token_list_peek_index(infix, 0))
    /\ \E k \in 1..token_list_count(postfix) : token_is_role_unary(postfix.tokens[k])

-----------------------------------------------------------------------------
(* What shunt_yard does to its input *)

\* shunt_yard is running: at its entry or in its loop
InShuntYard == pc \in {"shunt_yard", "scan"}

\* C27: a step of shunt_yard, up to and including its return, keeps the
\* infix list allocated with the same count and capacity and the same
\* lexeme, size, kind and type at every position; a token it changes is an
\* operator at a unary position (the first token, or after an operator or a
\* left parenthesis)
C27_InfixKept ==
    [][InShuntYard =>
         /\ infix'.mem = infix.mem
         /\ infix'.capacity = infix.capacity
         /\ token_list_count(infix') = token_list_count(infix)
         /\ \A k \in 1..token_list_count(infix) :
               /\ infix'.tokens[k].lexeme = infix.tokens[k].lexeme
               /\ infix'.tokens[k].size = infix.tokens[k].size
               /\ infix'.tokens[k].kind = infix.tokens[k].kind
               /\ infix'.tokens[k].type = infix.tokens[k].type
               /\ infix'.tokens[k] # infix.tokens[k] =>
                     /\ IsOperatorToken(infix.tokens[k])
                     /\ UnaryPosition(infix, k - 1)]_vars

\* shunt_yard has failed on a list of three or more tokens after it had
\* reclassified an operator that is not the first token
C27_Witness ==
    /\ Failed
    /\ infix.mem = "live"
    /\ token_list_count(infix) >= 3
    /\ \E k \in 2..token_list_count(infix) : token_is_role_unary(infix.tokens[k])

-----------------------------------------------------------------------------
(* The output against the input *)

\* how often the token t occurs in seq
Count(seq, t) == Cardinality({k \in 1..Len(seq) : seq[k] = t})

\* the tokens of seq that are literals or operators
Operands(seq) ==
    {seq[k] : k \in {j \in 1..Len(seq) :
                        seq[j].kind \in {"TOKEN_KIND_LITERAL", "TOKEN_KIND_OPERATOR"}}}

\* C28: when shunt_yard has returned a list for an infix list with balanced
\* parentheses, the output holds no parenthesis, and every literal and every
\* operator occurs in the output as often as in the infix list, with the
\* lexeme, type, kind, role, associativity and precedence the infix token has
\* after the conversion; the output holds nothing else
C28_OutputIsInput ==
    (Succeeded /\ Balanced(infix.tokens)) =>
        /\ \A k \in 1..token_list_count(postfix) :
              /\ ~token_is_group(postfix.tokens[k])
              /\ postfix.tokens[k] \in Operands(infix.tokens)
        /\ \A t \in Operands(infix.tokens) :
              Count(postfix.tokens, t) = Count(infix.tokens, t)

\* a conversion has succeeded on a list with parentheses and has put a unary
\* and a binary operator into the output
C28_Witness ==
    /\ Succeeded
    /\ Balanced(infix.tokens)
    /\ \E k \in 1..token_list_count(infix) : token_is_group(infix.tokens[k])
    /\ \E k \in 1..token_list_count(postfix) : token_is_role_unary(postfix.tokens[k])
    /\ \E k \in 1..token_list_count(postfix) : token_is_role_binary(postfix.tokens[k])

-----------------------------------------------------------------------------
(* Role, associativity and precedence of every token *)

\* role None, associativity None, precedence None
IsPlain(token) ==
    /\ token.role = "TOKEN_ROLE_NONE"
    /\ token.association = "TOKEN_ASSOCIATE_NONE"
    /\ token.precedence = TOKEN_PRECEDENT_NONE

\* role Binary, associativity Left, and the precedence of the operator's type
IsBinaryTriple(token) ==
    /\ token.role = "TOKEN_ROLE_BINARY"
    /\ token.association = "TOKEN_ASSOCIATE_LEFT"
    /\ token.precedence = IF token.type \in {"TOKEN_TYPE_PLUS", "TOKEN_TYPE_MINUS"}
                          THEN TOKEN_PRECEDENT_ADDITIVE
                          ELSE TOKEN_PRECEDENT_MULTIPLICATIVE

WellFormedToken(token) ==
    /\ token.kind \in {"TOKEN_KIND_LITERAL", "TOKEN_KIND_GROUP"} => IsPlain(token)
    /\ token.kind = "TOKEN_KIND_OPERATOR" => (IsBinaryTriple(token) \/ IsUnaryTriple(token))

WellFormedList(list) ==
    \A k \in 1..token_list_count(list) : WellFormedToken(list.tokens[k])

\* C29: at every step every literal and parenthesis of the infix list, the
\* operator stack and the output queue has role, associativity and
\* precedence None, and every operator has either the binary values of its
\* type or the three unary values; and an infix token that has the unary
\* values keeps them as long as the list is there
C29_TokenFields ==
    /\ [](WellFormedList(infix) /\ WellFormedList(operators) /\ WellFormedList(postfix))
    /\ [][\A k \in 1..token_list_count(infix') :
             (k <= token_list_count(infix) /\ IsUnaryTriple(infix.tokens[k]))
                => IsUnaryTriple(infix'.tokens[k])]_vars

\* in the middle of a conversion a unary operator is on the stack and a
\* binary operator is in the output
C29_Witness ==
    /\ pc = "scan"
    /\ \E k \in 1..token_list_count(operators) : IsUnaryTriple(operators.tokens[k])
    /\ \E k \in 1..token_list_count(postfix) : IsBinaryTriple(postfix.tokens[k])
    /\ \E k \in 1..token_list_count(infix) : token_is_group(infix.tokens[k])

-----------------------------------------------------------------------------
\* C30: when an allocation fails in tokenizer or in shunt_yard, the call
\* returns no result and has released every token and list it had allocated:
\* the lists it built are freed and no token is left unreleased.
C30_FailureReleasesAll ==
    oom.call # "none" =>
        /\ oom.leaked = <<>>
        /\ IF ret = "pending"
           THEN infix_ret = "NULL" /\ infix.mem = "freed"
           ELSE ret = "NULL" /\ postfix.mem = "freed" /\ operators.mem = "freed"

-----------------------------------------------------------------------------
\* C31: for every input text the pipeline of main runs to its end without
\* dereferencing a missing list, also when tokenizer or shunt_yard has
\* returned NULL.
C31_NoCrash == pc # "crashed"

-----------------------------------------------------------------------------
(* The terminal states of shunt_yard *)

\* main with a text shorter than MaxLen, a chain or a sample, or the caller
InitFair == Init /\ Len(text) # MaxLen

\* the same program, every enabled step of which is eventually taken
SpecFair == InitFair /\ [][Next]_vars /\ WF_vars(Next)

\* how many tokens of seq satisfy the token predicate of that name
NumberOf(seq, what) ==
    Cardinality({k \in 1..Len(seq) :
        CASE what = "number" -> token_is_number(seq[k])
          [] what = "operator" -> token_is_operator(seq[k])
          [] what = "left" -> token_is_type_left_paren(seq[k])
          [] what = "right" -> token_is_type_right_paren(seq[k])})

\* shunt_yard returned NULL and holds no list
TerminalFailed ==
    /\ ret = "NULL"
    /\ postfix.mem # "live"
    /\ operators.mem # "live"

\* shunt_yard returned the output queue and released the stack; the output
\* holds every literal and every token that went onto the stack, less one
\* left parenthesis for every right parenthesis
TerminalDone ==
    /\ ret = "postfix"
    /\ postfix.mem = "live"
    /\ operators.mem = "freed"
    /\ token_list_count(postfix) =
          NumberOf(infix.tokens, "number") + NumberOf(infix.tokens, "operator")
          + NumberOf(infix.tokens, "left") - NumberOf(infix.tokens, "right")

\* C32: a call of shunt_yard ends: every step of its loop moves the index
\* one token on or returns, and the call does return.  When it has returned
\* it is in exactly one of two states: Failed (NULL returned, output queue
\* and operator stack released or never created) or Done (output queue
\* returned, operator stack released); the stack is empty when the final loop
\* releases it, every token it held being in the output or dropped as the
\* left parenthesis of a right parenthesis; after the return shunt_yard takes
\* no step.
C32_TerminalStates ==
    /\ [](Returned => (TerminalFailed \/ TerminalDone))
    /\ [](Returned => ~(TerminalFailed /\ TerminalDone))
    /\ [][pc = "scan" =>
            \/ pc' = "valid_postfix" /\ ret' # "pending"
            \/ /\ pc' = "scan" /\ ret' = "pending"
               /\ i' = i + 1 /\ i' <= token_list_count(infix')]_vars
    /\ [][(pc = "scan" /\ ret' = "postfix") =>
            /\ token_list_is_empty(shunt_drain(postfix, operators).operators)
            /\ token_list_count(postfix') =
                  token_list_count(postfix) + token_list_count(operators)]_vars
    /\ [][ret # "pending" =>
            /\ ret' = ret /\ operators' = operators /\ i' = i
            /\ ~InShuntYard']_vars
    /\ (pc = "shunt_yard") ~> Returned

\* Done is reached for an expression with a matched pair of parentheses
C32_Witness ==
    /\ Returned /\ TerminalDone
    /\ NumberOf(infix.tokens, "right") > 0
    /\ NumberOf(infix.tokens, "operator") > 0

-----------------------------------------------------------------------------
(* Which operators can be unary *)

HasUnaryOtherThanSign(list) ==
    \E k \in 1..Len(list.tokens) :
        /\ token_is_role_unary(list.tokens[k])
        /\ ~IsSignToken(list.tokens[k])

\* C33: only + and - become unary: no token of the infix list, the operator
\* stack or the output queue has role Unary unless its type is Plus or Minus.
C33_OnlySignsUnary ==
    /\ ~HasUnaryOtherThanSign(infix)
    /\ ~HasUnaryOtherThanSign(operators)
    /\ ~HasUnaryOtherThanSign(postfix)

-----------------------------------------------------------------------------
\* C34: two shunt_yard calls on two infix lists, their steps interleaved in
\* any order: a step of one call changes nothing of the other call (its
\* infix list, index, output queue, operator stack, result), and after every
\* step each call still ends with the result it would have if it ran alone
\* from its start.
C34_CallsIndependent ==
    /\ [][\E c \in Calls : \A k \in Calls \ {c} : calls'[k] = calls[k]]_vars
    /\ [][\A c \in Calls : shunt_yard(calls'[c]) = shunt_yard(calls[c])]_vars

\* both calls are in the middle of their loops with operators on their stacks
C34_Witness ==
    /\ pc = "pair"
    /\ \A c \in Calls :
          /\ calls[c].pc = "scan"
          /\ calls[c].i > 1
          /\ ~token_list_is_empty(calls[c].operators)
    /\ calls[1].operators # calls[2].operators

-----------------------------------------------------------------------------
(* Parentheses on the operator stack *)

\* the position of the topmost left parenthesis of the stack, 0 when there is none
TopLeftParen(seq) ==
    LET at == {k \in 1..Len(seq) : token_is_type_left_paren(seq[k])}
    IN  IF at = {} THEN 0 ELSE CHOOSE k \in at : \A j \in at : j <= k

\* the tokens of the stack above position p, topmost first
PopOrder(seq, p) == Reverse(SubSeq(seq, p + 1, Len(seq)))

\* the loop of shunt_yard is at an operator, resp. at a right parenthesis
AtOperator == pc = "scan" /\ i < token_list_count(infix) /\ token_is_operator(Symbol)

AtRightParen ==
    pc = "scan" /\ i < token_list_count(infix) /\ token_is_type_right_paren(Symbol)

\* C35: while a left parenthesis is on the operator stack, an incoming
\* operator moves to the output only operators above the topmost left
\* parenthesis, in pop order, and leaves the parenthesis and everything below
\* it on the stack; a right parenthesis moves every operator above the
\* topmost left parenthesis to the output, in pop order, and takes that
\* parenthesis off the stack without putting it into the output; the
\* conversion of "(3+4)*2" returns 3 4 + 2 *.
C35_ParenScopesPopping ==
    /\ [][(AtOperator /\ TopLeftParen(operators.tokens) > 0) =>
            LET p == TopLeftParen(operators.tokens)
                n == token_list_count(operators)
            IN  \E m \in p..n :
                   /\ postfix'.tokens = postfix.tokens \o PopOrder(operators.tokens, m)
                   /\ operators'.tokens =
                         Append(SubSeq(operators.tokens, 1, m), infix'.tokens[i + 1])]_vars
    /\ [][(AtRightParen /\ TopLeftParen(operators.tokens) > 0) =>
            LET p == TopLeftParen(operators.tokens)
            IN  /\ postfix'.tokens = postfix.tokens \o PopOrder(operators.tokens, p)
                /\ operators'.tokens = SubSeq(operators.tokens, 1, p - 1)
                /\ pc' = "scan"]_vars
    /\ []((Succeeded /\ text = <<"(", "3", "+", "4", ")", "*", "2">>) =>
            Lexemes(postfix) = <<<<"3">>, <<"4">>, <<"+">>, <<"2">>, <<"*">>>>)

\* "(3+4)*2" has been converted
C35_Witness ==
    /\ Succeeded
    /\ text = <<"(", "3", "+", "4", ")", "*", "2">>
    /\ Lexemes(postfix) = <<<<"3">>, <<"4">>, <<"+">>, <<"2">>, <<"*">>>>

-----------------------------------------------------------------------------
(* The output queue *)

\* the literal tokens of seq, in their order
Literals(seq) == SelectSeq(seq, token_is_number)

\* seq is the beginning of longer
IsPrefix(seq, longer) ==
    /\ Len(seq) <= Len(longer)
    /\ SubSeq(longer, 1, Len(seq)) = seq

\* C36: when shunt_yard has returned a list, the literal tokens of the
\* output are the literal tokens of the infix list in the same order; and
\* every step of shunt_yard that does not fail leaves the tokens already in
\* the output where they are and only appends to them.
C36_OutputAppendOnly ==
    /\ [](Succeeded => Literals(postfix.tokens) = Literals(infix.tokens))
    /\ [][(pc = "scan" /\ ret' # "NULL") =>
            IsPrefix(postfix.tokens, postfix'.tokens)]_vars

\* a conversion of three different literals has succeeded
C36_Witness ==
    /\ Succeeded
    /\ Lexemes([tokens |-> Literals(postfix.tokens)]) = <<<<"3">>, <<"4">>, <<"2">>>>
    /\ token_list_count(postfix) = 5

-----------------------------------------------------------------------------
(* Converting a list a second time *)

\* a second call of shunt_yard on the infix list as the first call left it
SecondCall == shunt_yard(call_of(infix))

\* C37: when shunt_yard has returned, a second call on the same infix list
\* returns what the first call returned, NULL or an output equal to the first
\* output token by token and field by field, and leaves every field of every
\* infix token as the first call left it.
C37_SecondCallSame ==
    Returned =>
        /\ SecondCall.ret = ret
        /\ (ret = "postfix" => SecondCall.postfix.tokens = postfix.tokens)
        /\ SecondCall.infix = infix

\* the first call has made an operator unary and returned an output
C37_Witness ==
    /\ Succeeded
    /\ \E k \in 1..token_list_count(infix) : token_is_role_unary(infix.tokens[k])
    /\ \E k \in 1..token_list_count(infix) : token_is_role_binary(infix.tokens[k])
    /\ SecondCall.postfix.tokens = postfix.tokens

-----------------------------------------------------------------------------
(* token_list_push when an allocation fails *)

\* a slot below count holds no token
HasEmptySlot(list) ==
    \E k \in 1..token_list_count(list) : IsNull(list.tokens[k])

\* C38: a token_list_push that returns true has raised the count by one, has
\* left the tokens below where they were and has put a copy equal to the
\* pushed token into the tail slot; one that returns false has changed
\* nothing of the list; and no slot below count is ever empty, so that
\* token_list_pop returns a token whenever the list holds one.
C38_PushContract ==
    /\ [][(last'.op = "token_list_push" /\ stack' # stack) =>
            /\ token_list_count(stack') = token_list_count(stack) + 1
            /\ SubSeq(stack'.tokens, 1, token_list_count(stack)) = stack.tokens
            /\ stack'.tokens[token_list_count(stack')] = token_clone(hand.token)]_vars
    /\ [][last'.op = "token_list_push: false" => (stack' = stack /\ slots' = slots)]_vars
    /\ [](stack.mem = "live" => ~HasEmptySlot(stack))
    /\ [](stack.mem = "live" /\ ~token_list_is_empty(stack)
             => ~IsNull(token_list_pop_token(stack)))

-----------------------------------------------------------------------------
(* token_list_pop_index *)

\* seq without its element at position k
Without(seq, k) == SubSeq(seq, 1, k - 1) \o SubSeq(seq, k + 1, Len(seq))

\* C39: token_list_pop_index(list, index) on a list of count n >= 1 with
\* -n <= index < n returns a copy of the element at that position (counted
\* from the end when index is negative), lowers the count to n - 1, leaves
\* the other elements in their order, none lost and none stored twice, and
\* reads and writes no slot outside the array; with any other index it
\* returns NULL and leaves the list unchanged.
C39_PopIndex ==
    [][last'.op = "token_list_pop_index" =>
         LET n == token_list_count(stack)
             index == last'.index
             at == IF index < 0 THEN n + index ELSE index
         IN  IF n >= 1 /\ 0 - n <= index /\ index < n
             THEN /\ hand'.token = stack.tokens[at + 1]
                  /\ hand'.owner = "caller"
                  /\ token_list_count(stack') = n - 1
                  /\ stack'.tokens = Without(stack.tokens, at + 1)
                  /\ slots' = Without(slots, at + 1)
                  /\ fault' = "none"
             ELSE /\ IsNull(hand'.token)
                  /\ stack' = stack
                  /\ slots' = slots]_vars

====
